---- MODULE Spec2Model ----
(***************************************************************************)
(* farm-manager: the hardware inventory collectors (src/src/hardware) and  *)
(* the `hardware` subcommands that run them (src/src/commands/hardware.rs).*)
(*                                                                         *)
(* One run of the program executes one subcommand: it reads a snapshot of  *)
(* the environment (firmware table, sysfs, external tools), computes the   *)
(* category record(s) and prints them.  The snapshot a collector reads is  *)
(* recorded in the state next to what the collector returned.              *)
(*                                                                         *)
(* Option<T> is a sequence of length 0 (None) or 1 (Some).                 *)
(* A u64 byte count is the pair [mib, b] with value mib * 2^20 + b and     *)
(* b < 2^20, because the byte counts of the memory collector exceed the    *)
(* range of the model checker's integers.                                  *)
(***************************************************************************)
EXTENDS Integers, Sequences, FiniteSets, TLC

VARIABLES pc, dmi, sysfs, tools, locals, output

vars == <<pc, dmi, sysfs, tools, locals, output>>

----------------------------------------------------------------------------
(* Option<T> *)

None == <<>>

Some(x) == <<x>>

IsSome(o) == Len(o) = 1

IsNone(o) == Len(o) = 0

Unwrap(o) == o[1]

----------------------------------------------------------------------------
(* u64 byte counts *)

MiB == 1048576

U64(n) == [mib |-> n \div MiB, b |-> n % MiB]

U64Zero == [mib |-> 0, b |-> 0]

\* x * k for a small factor k (k <= 1024), as `x as u64 * k`
U64Mul(x, k) == [mib |-> x.mib * k + (x.b * k) \div MiB, b |-> (x.b * k) % MiB]

\* x + y, as `total_bytes += size`
U64Add(x, y) == [mib |-> x.mib + y.mib + (x.b + y.b) \div MiB, b |-> (x.b + y.b) % MiB]

U64Positive(x) == x.mib > 0 \/ x.b > 0

----------------------------------------------------------------------------
(* smbioslib: decoding of the raw fields of a Memory Device (type 17)      *)
(* structure, as the collectors see them through the library's enums.      *)

\* 0x7FFF
SeeExtendedSizeRaw == 32767

\* MemoryDevice::size(): MemorySize::from(u16)
MemorySizeFrom(raw) ==
    IF raw = 0 THEN [tag |-> "NotInstalled", n |-> 0]
    ELSE IF raw = 65535 THEN [tag |-> "Unknown", n |-> 0]
    ELSE IF raw = SeeExtendedSizeRaw THEN [tag |-> "SeeExtendedSize", n |-> 0]
    ELSE IF raw >= 32768 THEN [tag |-> "Kilobytes", n |-> raw - 32768]
    ELSE [tag |-> "Megabytes", n |-> raw]

\* MemoryDevice::extended_size(): MemorySizeExtended::from(u32)
MemorySizeExtendedFrom(raw) ==
    IF raw = 0 THEN [tag |-> "SeeSize", n |-> 0]
    ELSE [tag |-> "Megabytes", n |-> raw]

\* MemoryDevice::speed() / configured_memory_speed(): MemorySpeed::from(u16)
MemorySpeedFrom(raw) ==
    IF raw = 0 THEN [tag |-> "Unknown", n |-> 0]
    ELSE IF raw = 65535 THEN [tag |-> "SeeExtendedSpeed", n |-> 0]
    ELSE [tag |-> "MTs", n |-> raw]

----------------------------------------------------------------------------
(* collect_memory.rs *)

\* `if !s.is_empty() && s != "Not Specified"` on an Option<String>
MemStringAttr(s) ==
    IF IsSome(s) /\ Unwrap(s) # "" /\ Unwrap(s) # "Not Specified" THEN s ELSE None

\* device locator: `if !slot_name.is_empty()`
MemSlot(s) ==
    IF IsSome(s) /\ Unwrap(s) # "" THEN s ELSE None

\* "Speed - check configured and max speed": the `if let ... else if let` of
\* each of the three size branches
MemSpeedUsable(raw) ==
    LET s == MemorySpeedFrom(raw)
    IN  IF s.tag = "MTs" /\ s.n > 0 THEN Some(s.n) ELSE None

MemSpeed(md) ==
    IF IsSome(md.configured_memory_speed)
    THEN MemSpeedUsable(Unwrap(md.configured_memory_speed))
    ELSE IF IsSome(md.speed)
    THEN MemSpeedUsable(Unwrap(md.speed))
    ELSE None

\* the DimmInfo literal with the attributes every branch fills the same way
DimmWith(md, size) ==
    [slot          |-> MemSlot(md.device_locator),
     size_bytes    |-> size,
     speed_mt_s    |-> MemSpeed(md),
     manufacturer  |-> MemStringAttr(md.manufacturer),
     serial_number |-> MemStringAttr(md.serial_number),
     part_number   |-> MemStringAttr(md.part_number)]

\* the product taken in 32 bits before widening
MegabytesToBytesTruncated(mb) == U64Mul(U64Mul(U64(mb % 4096), 1024), 1024)

\* `mb as u64 * 1024 * 1024`
MegabytesToBytes(mb) == U64Mul(U64Mul(U64(mb), 1024), 1024)

\* `kb as u64 * 1024`
KilobytesToBytes(kb) == U64Mul(U64(kb), 1024)

\* the `if mb == 0x7FFF { ... }` size computation of the Kilobytes and
\* Megabytes branches
MegabytesOrExtended(md, mb) ==
    IF mb = SeeExtendedSizeRaw
    THEN IF IsSome(md.extended_size)
         THEN LET e == MemorySizeExtendedFrom(Unwrap(md.extended_size))
              IN  IF e.tag = "Megabytes" THEN MegabytesToBytes(e.n)
                  ELSE MegabytesToBytes(mb)
         ELSE MegabytesToBytes(mb)
    ELSE MegabytesToBytes(mb)

\* the SeeExtendedSize branch pushing like the other two branches do
DimmSeeExtendedAlwaysPush(md) ==
    LET e == IF IsSome(md.extended_size)
             THEN MemorySizeExtendedFrom(Unwrap(md.extended_size))
             ELSE [tag |-> "Absent", n |-> 0]
    IN  IF e.tag = "Megabytes" /\ e.n > 0
        THEN Some(DimmWith(md, Some(MegabytesToBytes(e.n))))
        ELSE Some(DimmWith(md, None))

\* MemorySize::SeeExtendedSize branch: the DIMM is pushed only with a size
DimmSeeExtended(md) ==
    LET e == IF IsSome(md.extended_size)
             THEN MemorySizeExtendedFrom(Unwrap(md.extended_size))
             ELSE [tag |-> "Absent", n |-> 0]
        size == IF e.tag = "Megabytes" /\ e.n > 0
                THEN Some(MegabytesToBytes(e.n))
                ELSE None
    IN  IF IsSome(size) THEN Some(DimmWith(md, size)) ELSE None

\* MemorySize::Kilobytes(kb) if kb > 0
DimmKilobytes(md, kb) ==
    LET size_bytes == KilobytesToBytes(kb)
    IN  Some(DimmWith(md, IF U64Positive(size_bytes) THEN Some(size_bytes) ELSE None))

\* MemorySize::Megabytes(mb) if mb > 0
DimmMegabytes(md, mb) ==
    Some(DimmWith(md, Some(MegabytesOrExtended(md, mb))))

\* one iteration of `for structure in smbios_data.iter()`: the DimmInfo the
\* structure pushes, None when it pushes nothing
DimmOfStructure(st) ==
    IF st.kind # "MemoryDevice" THEN None
    ELSE IF IsNone(st.size) THEN None
    ELSE LET size_info == MemorySizeFrom(Unwrap(st.size))
         IN  IF size_info.tag = "SeeExtendedSize" THEN DimmSeeExtended(st)
             ELSE IF size_info.tag = "Kilobytes" /\ size_info.n > 0
             THEN DimmKilobytes(st, size_info.n)
             ELSE IF size_info.tag = "Megabytes" /\ size_info.n > 0
             THEN DimmMegabytes(st, size_info.n)
             ELSE None

\* SMBiosData::try_load_from_file, then fs::read + from_vec_and_version of
\* the same file, else the early return
LoadSmbios(snapshot) ==
    IF snapshot.try_load = "ok" THEN Some(snapshot.structures)
    ELSE IF snapshot.read = "ok" THEN Some(snapshot.structures)
    ELSE None

RECURSIVE DimmsOf(_)
DimmsOf(structures) ==
    IF structures = <<>> THEN <<>>
    ELSE DimmOfStructure(Head(structures)) \o DimmsOf(Tail(structures))

collect_memory_with_smbios(snapshot) ==
    LET smbios_data == LoadSmbios(snapshot)
    IN  IF IsNone(smbios_data) THEN <<>> ELSE DimmsOf(Unwrap(smbios_data))

RECURSIVE SumSizes(_)
SumSizes(dimms) ==
    IF dimms = <<>> THEN U64Zero
    ELSE LET rest == SumSizes(Tail(dimms))
             d == Head(dimms)
         IN  IF IsSome(d.size_bytes) THEN U64Add(Unwrap(d.size_bytes), rest) ELSE rest

\* a loop that starts at the second DIMM
SumSizesSkipFirst(dimms) ==
    IF dimms = <<>> THEN U64Zero ELSE SumSizes(Tail(dimms))

\* `for dimm in &dimms { ... total_bytes += size }`
TotalBytes(dimms) == SumSizes(dimms)

collect_memory_info(snapshot) ==
    LET dimms == collect_memory_with_smbios(snapshot)
        total_bytes == TotalBytes(dimms)
    IN  [total_bytes |-> IF U64Positive(total_bytes) THEN Some(total_bytes) ELSE None,
         dimms |-> dimms]

----------------------------------------------------------------------------
(* The firmware tables the memory subcommand is run against *)

MaxMemoryStructures == 2

Locator(i) == <<"DIMM", i>>

MemDev(size, ext, cfg, spd, mfg) ==
    [kind |-> "MemoryDevice", size |-> size, extended_size |-> ext,
     configured_memory_speed |-> cfg, speed |-> spd,
     device_locator |-> None, manufacturer |-> mfg,
     serial_number |-> Some("SN0001"), part_number |-> Some("Not Specified")]

SizeRaws == {0, 1, 8192, 32766, 32768, 32769, 33792, 65534, 65535}

ExtendedRaws == {0, 1, 65536}

ConfiguredSpeedRaws == {None, Some(0), Some(2400)}

RatedSpeedRaws == {None, Some(0), Some(3200)}

MemoryDevices ==
    \* pre-2.7 structures: no extended size, no configured speed
    {MemDev(Some(s), None, None, Some(1600), Some("Samsung")) : s \in SizeRaws \cup {SeeExtendedSizeRaw}}
    \* structure too short to hold the size field
    \cup {MemDev(None, None, None, None, None)}
    \* the 0x7FFF sentinel with an extended size
    \cup {MemDev(Some(SeeExtendedSizeRaw), Some(e), Some(2400), Some(3200), Some("")) : e \in ExtendedRaws}
    \* an ordinary 8 GiB module, every combination of the two speed fields
    \cup {MemDev(Some(8192), Some(0), c, s, Some("Not Specified")) : c \in ConfiguredSpeedRaws, s \in RatedSpeedRaws}
    \* a 32 GiB module behind the sentinel whose configured speed is unknown
    \cup {MemDev(Some(SeeExtendedSizeRaw), Some(32768), Some(0), s, Some("Micron")) : s \in {Some(0), Some(3200)}}

OtherStructure == [kind |-> "SystemSlots"]

\* the firmware gives every slot its own locator string
WithLocators(structures) ==
    [i \in 1..Len(structures) |->
        IF structures[i].kind = "MemoryDevice"
        THEN [structures[i] EXCEPT !.device_locator = Some(Locator(i))]
        ELSE structures[i]]

DmiUnread == [try_load |-> "unread", read |-> "unread", structures |-> <<>>]

\* how the two attempts to read /sys/firmware/dmi/tables/DMI end; when both
\* fail no structure is seen
DmiLoadOutcomes == {<<"ok", "ok">>, <<"err", "ok">>, <<"err", "err">>}

DmiSnapshot(outcome, structures) ==
    [try_load |-> outcome[1], read |-> outcome[2],
     structures |-> IF outcome[2] = "ok" THEN structures ELSE <<>>]

----------------------------------------------------------------------------
(* smbioslib: decoding of the raw fields of a Processor Information        *)
(* (type 4) structure.                                                     *)

\* ProcessorInformation::core_count(): CoreCount::from(u8); thread_count()
\* decodes the same way
CoreCountFrom(raw) ==
    IF raw = 0 THEN [tag |-> "Unknown", n |-> 0]
    ELSE IF raw = 255 THEN [tag |-> "SeeCoreCount2", n |-> 0]
    ELSE [tag |-> "Count", n |-> raw]

\* ProcessorInformation::current_speed() / max_speed(): ProcessorSpeed::from(u16)
ProcessorSpeedFrom(raw) ==
    IF raw = 0 THEN [tag |-> "Unknown", n |-> 0]
    ELSE [tag |-> "MHz", n |-> raw]

----------------------------------------------------------------------------
(* collect_cpu.rs *)

\* the first CacheInformation structure with the handle decides; its size is
\* returned when it prints as "Kilobytes(<n>)"
RECURSIVE get_cache_size_by_handle(_, _)
get_cache_size_by_handle(structures, handle) ==
    IF structures = <<>> THEN None
    ELSE LET st == Head(structures)
         IN  IF st.kind = "CacheInformation" /\ st.handle = handle
             THEN IF IsSome(st.installed_size) /\ Unwrap(st.installed_size).tag = "Kilobytes"
                  THEN Some(Unwrap(st.installed_size).n)
                  ELSE None
             ELSE get_cache_size_by_handle(Tail(structures), handle)

\* `Count(count) if count > 0`
CpuCount(field) ==
    IF IsSome(field)
    THEN LET c == CoreCountFrom(Unwrap(field))
         IN  IF c.tag = "Count" /\ c.n > 0 THEN Some(c.n) ELSE None
    ELSE None

\* `MHz(mhz) if mhz > 0`
CpuMHz(field) ==
    IF IsSome(field)
    THEN LET m == ProcessorSpeedFrom(Unwrap(field))
         IN  IF m.tag = "MHz" /\ m.n > 0 THEN Some(m.n) ELSE None
    ELSE None

\* current speed, max speed only `if cpu.capacity_mhz.is_none()`
CpuCapacity(processor) ==
    IF IsSome(CpuMHz(processor.current_speed)) THEN CpuMHz(processor.current_speed)
    ELSE CpuMHz(processor.max_speed)

CpuCache(structures, handle) ==
    IF IsSome(handle) THEN get_cache_size_by_handle(structures, Unwrap(handle)) ELSE None

\* String::trim of the model strings of the tables: "" stands for a string
\* of blanks
Trim(str) == IF str = " " THEN "" ELSE str

CpuModelName(version) ==
    IF IsSome(version) /\ Trim(Unwrap(version)) # "" /\ Trim(Unwrap(version)) # "Not Specified"
    THEN Some(Trim(Unwrap(version)))
    ELSE None

CpuNonEmpty(str) ==
    IF IsSome(str) /\ Unwrap(str) # "" THEN str ELSE None

\* the CpuSocket built for one ProcessorInformation structure
CpuSocketOf(structures, processor, socket_index) ==
    [socket       |-> socket_index,
     manufacturer |-> CpuNonEmpty(processor.processor_manufacturer),
     model_name   |-> CpuModelName(processor.processor_version),
     num_cores    |-> CpuCount(processor.core_count),
     num_threads  |-> CpuCount(processor.thread_count),
     capacity_mhz |-> CpuCapacity(processor),
     slot         |-> CpuNonEmpty(processor.socket_designation),
     l1_cache_kb  |-> CpuCache(structures, processor.l1cache_handle),
     l2_cache_kb  |-> CpuCache(structures, processor.l2cache_handle),
     l3_cache_kb  |-> CpuCache(structures, processor.l3cache_handle)]

\* the loop over the table from position i on, with the HashMap built so
\* far: `cpu_data.insert(socket_index, cpu); socket_index += 1;`
RECURSIVE CpuLoop(_, _, _, _)
CpuLoop(structures, i, socket_index, cpu_data) ==
    IF i > Len(structures) THEN cpu_data
    ELSE IF structures[i].kind = "ProcessorInformation"
    THEN LET key == socket_index
             cpu == CpuSocketOf(structures, structures[i], key)
         IN  CpuLoop(structures, i + 1, socket_index + 1,
                     [k \in DOMAIN cpu_data \cup {key} |->
                         IF k = key THEN cpu ELSE cpu_data[k]])
    ELSE CpuLoop(structures, i + 1, socket_index, cpu_data)

\* the HashMap<u32, CpuSocket> as a function from its keys
collect_with_smbios(snapshot) ==
    LET smbios_data == LoadSmbios(snapshot)
    IN  IF IsNone(smbios_data) THEN <<>>
        ELSE CpuLoop(Unwrap(smbios_data), 1, 0, <<>>)

\* a count reported even when it is zero
AlwaysSome(n) == Some(n)

\* `if n > 0 { Some(n) } else { None }`
SomeIfPositive(n) == IF n > 0 THEN Some(n) ELSE None

RECURSIVE SumOver(_, _, _)
SumOver(cpu_data, keys, field) ==
    IF keys = {} THEN 0
    ELSE LET k == CHOOSE x \in keys : TRUE
             cpu == cpu_data[k]
             v == IF field = "cores" THEN cpu.num_cores ELSE cpu.num_threads
         IN  (IF IsSome(v) THEN Unwrap(v) ELSE 0) + SumOver(cpu_data, keys \ {k}, field)

\* Vec::sort_by_key(|cpu| cpu.socket): a stable insertion sort
RECURSIVE InsertBySocket(_, _)
InsertBySocket(sorted, cpu) ==
    IF sorted = <<>> THEN <<cpu>>
    ELSE IF Head(sorted).socket <= cpu.socket
    THEN <<Head(sorted)>> \o InsertBySocket(Tail(sorted), cpu)
    ELSE <<cpu>> \o sorted

RECURSIVE SortFrom(_, _)
SortFrom(cpus, sorted) ==
    IF cpus = <<>> THEN sorted
    ELSE SortFrom(Tail(cpus), InsertBySocket(sorted, Head(cpus)))

\* the vector as HashMap::into_values left it
Unsorted(cpus) == cpus

SortBySocket(cpus) == SortFrom(cpus, <<>>)

\* `order` is the order in which HashMap::into_values yields the sockets
collect_cpu_info(snapshot, order) ==
    LET cpu_data == collect_with_smbios(snapshot)
        total_cores == SumOver(cpu_data, DOMAIN cpu_data, "cores")
        total_threads == SumOver(cpu_data, DOMAIN cpu_data, "threads")
        socket_count == Cardinality(DOMAIN cpu_data)
        cpus == SortBySocket([i \in 1..Len(order) |-> cpu_data[order[i]]])
    IN  [sockets |-> SomeIfPositive(socket_count),
         cores   |-> SomeIfPositive(total_cores),
         threads |-> SomeIfPositive(total_threads),
         cpus    |-> cpus]

\* the orders in which the keys of a HashMap can be iterated
IterationOrders(keys) ==
    {o \in [1..Cardinality(keys) -> keys] : \A i, j \in DOMAIN o : i # j => o[i] # o[j]}

----------------------------------------------------------------------------
(* The firmware tables the cpu subcommand is run against *)

MaxCpuStructures == 3

Designation(i) == <<"CPU", i>>

Processor(cores, threads, current, max, version, l1) ==
    [kind |-> "ProcessorInformation", socket_designation |-> None,
     processor_manufacturer |-> Some("Intel"), processor_version |-> version,
     core_count |-> cores, thread_count |-> threads,
     current_speed |-> current, max_speed |-> max,
     l1cache_handle |-> l1, l2cache_handle |-> Some(65535), l3cache_handle |-> None]

Processors ==
    {Processor(Some(4), Some(8), Some(2400), Some(3000), Some("Xeon A"), Some(65535)),
     Processor(Some(4), Some(8), Some(2600), Some(3000), Some("Xeon B"), Some(65535)),
     Processor(Some(16), Some(32), Some(0), Some(3600), Some("EPYC"), Some(7)),
     Processor(Some(0), Some(0), Some(0), Some(0), Some("Not Specified"), None),
     Processor(Some(255), Some(255), Some(2000), None, Some(" "), Some(7)),
     Processor(Some(6), Some(0), None, None, None, Some(8)),
     Processor(None, None, None, None, Some(""), None)}

Caches ==
    {[kind |-> "CacheInformation", handle |-> 7,
      installed_size |-> Some([tag |-> "Kilobytes", n |-> 512])],
     [kind |-> "CacheInformation", handle |-> 8,
      installed_size |-> Some([tag |-> "SeeInstalledSize2", n |-> 0])]}

\* the firmware gives every socket its own designation string
WithDesignations(structures) ==
    [i \in 1..Len(structures) |->
        IF structures[i].kind = "ProcessorInformation"
        THEN [structures[i] EXCEPT !.socket_designation = Some(Designation(i))]
        ELSE structures[i]]

----------------------------------------------------------------------------
(* Strings that are tested by prefix or substring are sequences of         *)
(* characters.                                                             *)

StartsWith(str, prefix) ==
    /\ Len(str) >= Len(prefix)
    /\ SubSeq(str, 1, Len(prefix)) = prefix

Contains(str, part) ==
    \E i \in 1..(Len(str) - Len(part) + 1) : SubSeq(str, i, i + Len(part) - 1) = part

----------------------------------------------------------------------------
(* collect_network.rs *)

VirtualPrefixes ==
    {<<"l", "o">>,
     <<"v", "e", "t", "h">>,
     <<"d", "o", "c", "k", "e", "r">>,
     <<"b", "r", "-">>,
     <<"v", "i", "r", "b", "r">>,
     <<"c", "n", "i">>,
     <<"f", "l", "a", "n", "n", "e", "l">>,
     <<"k", "u", "b", "e">>,
     <<"t", "u", "n">>,
     <<"t", "a", "p">>,
     <<"v", "m", "n", "e", "t">>}

VlanPart == <<"v", "l", "a", "n">>

BondPrefixes == {<<"b", "o", "n", "d">>, <<"t", "e", "a", "m">>}

IsBondName(name) == \E p \in BondPrefixes : StartsWith(name, p)

\* "Common virtual interface name patterns"
NamedVirtual(name) ==
    \/ \E p \in VirtualPrefixes : StartsWith(name, p)
    \/ Contains(name, VlanPart)

\* a check that lets every interface with a device entry through
is_virtual_interface_device_first(name, has_device) ==
    IF has_device THEN FALSE
    ELSE IF NamedVirtual(name) THEN TRUE
    ELSE IF IsBondName(name) THEN FALSE
    ELSE TRUE

\* a check without the bond/team rule: only the device entry decides
is_virtual_interface_without_bond_rule(name, has_device) ==
    IF NamedVirtual(name) THEN TRUE
    ELSE ~has_device

\* `has_device` is `iface_sys_path.join("device").exists()`
is_virtual_interface(name, has_device) ==
    IF NamedVirtual(name) THEN TRUE
    ELSE IF IsBondName(name) THEN FALSE
    ELSE ~has_device

\* one run of `ip -j ...` printing `document` when it works: whether the
\* process was spawned, its exit status, and stdout parsed as JSON (None
\* when it is no JSON; a failing ip prints nothing on stdout)
IpRun(ip, document) ==
    [spawned |-> ip # "absent",
     success |-> ip \in {"ok", "garbage"},
     json    |-> IF ip = "ok" THEN Some(document) ELSE None]

\* `Ok(o) if o.status.success()` then `serde_json::from_slice`
IpJsonChecked(run) ==
    IF run.spawned /\ run.success THEN run.json ELSE None

\* `if let Ok(output) = output` then `serde_json::from_slice`
IpJsonUnchecked(run) ==
    IF run.spawned THEN run.json ELSE None

\* the `addr_info` loop of collect_ip_addrs: entries without `local` are
\* skipped
RECURSIVE IpAddresses(_)
IpAddresses(addr_info) ==
    IF addr_info = <<>> THEN <<>>
    ELSE LET addr == Head(addr_info)
             rest == IpAddresses(Tail(addr_info))
         IN  IF addr.local = "" THEN rest
             ELSE <<[family |-> addr.family, address |-> addr.local, prefix |-> addr.prefixlen]>> \o rest

\* the HashMap<String, Vec<IpAddress>> as a function from interface names;
\* `entries` are the interfaces the kernel knows, which `ip -j addr` prints
collect_ip_addrs(ip, entries) ==
    LET json == IpJsonChecked(IpRun(ip, entries))
    IN  IF IsNone(json) THEN <<>>
        ELSE [name \in {entries[i].name : i \in 1..Len(entries)} |->
                LET e == CHOOSE x \in {entries[i] : i \in 1..Len(entries)} : x.name = name
                IN  IpAddresses(e.addr_info)]

RouteOf(r) ==
    [dst     |-> IF IsSome(r.dst) THEN Unwrap(r.dst) ELSE "default",
     gateway |-> IF IsSome(r.gateway) THEN Unwrap(r.gateway) ELSE "",
     iface   |-> IF IsSome(r.dev) THEN Unwrap(r.dev) ELSE ""]

collect_routes(ip, route_json) ==
    LET json == IpJsonChecked(IpRun(ip, route_json))
    IN  IF IsNone(json) THEN <<>>
        ELSE [i \in 1..Len(Unwrap(json)) |-> RouteOf(Unwrap(json)[i])]

\* a heuristic that takes any configured address
HasAnyAddress(addr_info) == addr_info # <<>>

\* `family == "inet" && scope == "global"` on some entry of addr_info
HasGlobalIpv4(addr_info) ==
    \E i \in 1..Len(addr_info) :
        addr_info[i].family = "inet" /\ addr_info[i].scope = "global"

\* (is_primary, bond_group, bond_master)
detect_bond_info(entry, ip) ==
    IF IsBondName(entry.name)
    THEN [is_primary |-> TRUE, bond_group |-> Some(entry.name), bond_master |-> None]
    ELSE LET enslaved == IsSome(entry.master)
             by_master == enslaved /\ IsBondName(Unwrap(entry.master))
             show == IpJsonUnchecked(IpRun(ip, entry.addr_info))
         IN  [is_primary  |-> \/ by_master
                              \/ (IsSome(show) /\ HasGlobalIpv4(Unwrap(show))),
              bond_group  |-> entry.master,
              bond_master |-> entry.master]

\* the NetInterface pushed for a directory entry that is not skipped (the
\* attributes copied from sysfs files and ethtool are left out)
NetInterfaceOf(entry, iface_addrs, ip) ==
    LET bond == detect_bond_info(entry, ip)
    IN  [name        |-> entry.name,
         addresses   |-> IF entry.name \in DOMAIN iface_addrs THEN iface_addrs[entry.name] ELSE <<>>,
         is_primary  |-> bond.is_primary,
         bond_group  |-> bond.bond_group,
         bond_master |-> bond.bond_master]

RECURSIVE NetInterfaces(_, _, _)
NetInterfaces(entries, iface_addrs, ip) ==
    IF entries = <<>> THEN <<>>
    ELSE LET entry == Head(entries)
             rest == NetInterfaces(Tail(entries), iface_addrs, ip)
         IN  IF is_virtual_interface(entry.name, entry.has_device) THEN rest
             ELSE <<NetInterfaceOf(entry, iface_addrs, ip)>> \o rest

\* class_net is the listing of /sys/class/net in read_dir order, None when
\* the directory cannot be read
collect_network_info(class_net, ip, route_json) ==
    LET known == IF IsSome(class_net) THEN Unwrap(class_net) ELSE <<>>
        iface_addrs == collect_ip_addrs(ip, known)
        routes == collect_routes(ip, route_json)
    IN  [interfaces |-> IF IsNone(class_net) THEN <<>>
                        ELSE NetInterfaces(Unwrap(class_net), iface_addrs, ip),
         routes |-> routes]

----------------------------------------------------------------------------
(* The /sys/class/net listings the network subcommand is run against *)

MaxInterfaces == 2

InterfaceNames ==
    {<<"l", "o">>,
     <<"v", "e", "t", "h", "1">>,
     <<"d", "o", "c", "k", "e", "r", "0">>,
     <<"b", "r", "-", "1">>,
     <<"v", "i", "r", "b", "r", "0">>,
     <<"c", "n", "i", "0">>,
     <<"f", "l", "a", "n", "n", "e", "l", ".", "1">>,
     <<"k", "u", "b", "e", "-", "i", "p", "v", "s", "0">>,
     <<"t", "u", "n", "0">>,
     <<"t", "a", "p", "0">>,
     <<"v", "m", "n", "e", "t", "1">>,
     <<"e", "t", "h", "0", ".", "v", "l", "a", "n", "5">>,
     <<"e", "t", "h", "0">>,
     <<"e", "n", "p", "3", "s", "0">>,
     <<"b", "o", "n", "d", "0">>,
     <<"t", "e", "a", "m", "0">>,
     <<"b", "o", "n", "d", "0", ".", "v", "l", "a", "n", "5">>,
     <<"b", "r", "0">>,
     <<"l", "o", "c", "a", "l", "0">>}

NetEntry(name, has_device, master, addr_info) ==
    [name |-> name, has_device |-> has_device, master |-> master, addr_info |-> addr_info]

GlobalV4 == [family |-> "inet", scope |-> "global", local |-> "10.0.0.5", prefixlen |-> 24]

HostV4 == [family |-> "inet", scope |-> "host", local |-> "127.0.0.1", prefixlen |-> 8]

LinkV6 == [family |-> "inet6", scope |-> "link", local |-> "", prefixlen |-> 64]

NetEntries ==
    \* every name with and without a device entry
    {NetEntry(n, d, None, <<>>) : n \in InterfaceNames, d \in BOOLEAN}
    \* addressed and enslaved interfaces
    \cup {NetEntry(n, TRUE, m, a) :
            n \in {<<"e", "t", "h", "0">>, <<"d", "o", "c", "k", "e", "r", "0">>},
            m \in {None, Some(<<"b", "o", "n", "d", "0">>), Some(<<"b", "r", "0">>)},
            a \in {<<GlobalV4>>, <<LinkV6, HostV4>>}}
    \cup {NetEntry(<<"b", "o", "n", "d", "0">>, FALSE, None, <<GlobalV4>>), NetEntry(<<"l", "o">>, FALSE, None, <<HostV4>>)}

\* a directory holds every name once
NetListings(n) ==
    {l \in [1..n -> NetEntries] : \A i, j \in 1..n : i # j => l[i].name # l[j].name}

\* lo, docker0, eth0 with a device entry and a global IPv4 address, and
\* bond0 without a device entry
EndToEndListing ==
    <<NetEntry(<<"l", "o">>, FALSE, None, <<HostV4>>),
      NetEntry(<<"d", "o", "c", "k", "e", "r", "0">>, FALSE, None, <<>>),
      NetEntry(<<"e", "t", "h", "0">>, TRUE, None, <<GlobalV4>>),
      NetEntry(<<"b", "o", "n", "d", "0">>, FALSE, None, <<>>)>>

\* the listings of n entries the subcommand is run against
ClassNetCases(n) ==
    NetListings(n) \cup {l \in {EndToEndListing} : n = MaxInterfaces}

IpOutcomes == {"absent", "nonzero", "garbage", "ok"}

RouteJson ==
    <<[dst |-> Some("default"), gateway |-> Some("10.0.0.1"), dev |-> Some("eth0")],
      [dst |-> None, gateway |-> None, dev |-> None]>>

----------------------------------------------------------------------------
(* Text helpers over strings as sequences of characters; a tool's stdout   *)
(* is the sequence of its lines.                                           *)

\* blanks, tabs and line ends
Whitespace == {" ", "\t", "\n"}

RECURSIVE TrimStart(_)
TrimStart(str) ==
    IF str # <<>> /\ Head(str) \in Whitespace THEN TrimStart(Tail(str)) ELSE str

RECURSIVE TrimEnd(_)
TrimEnd(str) ==
    IF str # <<>> /\ str[Len(str)] \in Whitespace THEN TrimEnd(SubSeq(str, 1, Len(str) - 1)) ELSE str

\* str::trim
TrimStr(str) == TrimEnd(TrimStart(str))

\* position of the first `ch`, 0 when there is none
IndexOf(str, ch) ==
    IF \E i \in 1..Len(str) : str[i] = ch
    THEN CHOOSE i \in 1..Len(str) : str[i] = ch /\ \A j \in 1..(i - 1) : str[j] # ch
    ELSE 0

\* str::split_once(ch)
SplitOnce(str, ch) ==
    LET i == IndexOf(str, ch)
    IN  IF i = 0 THEN None
        ELSE Some(<<SubSeq(str, 1, i - 1), SubSeq(str, i + 1, Len(str))>>)

\* str.split(ch).nth(1)
SplitNth1(str, ch) ==
    LET first == SplitOnce(str, ch)
    IN  IF IsNone(first) THEN None
        ELSE LET rest == Unwrap(first)[2]
                 j == IndexOf(rest, ch)
             IN  Some(IF j = 0 THEN rest ELSE SubSeq(rest, 1, j - 1))

\* str.split_whitespace().next()
FirstWord(str) ==
    LET t == TrimStart(str)
        j == IF \E i \in 1..Len(t) : t[i] \in Whitespace
             THEN CHOOSE i \in 1..Len(t) :
                    t[i] \in Whitespace /\ \A k \in 1..(i - 1) : t[k] \notin Whitespace
             ELSE 0
    IN  IF t = <<>> THEN None
        ELSE Some(IF j = 0 THEN t ELSE SubSeq(t, 1, j - 1))

Upper == <<"A", "B", "C", "D", "E", "F", "G", "H", "I", "J", "K", "L", "M", "N", "O", "P", "Q", "R", "S", "T", "U", "V", "W", "X", "Y", "Z">>

Lower == <<"a", "b", "c", "d", "e", "f", "g", "h", "i", "j", "k", "l", "m", "n", "o", "p", "q", "r", "s", "t", "u", "v", "w", "x", "y", "z">>

\* str::to_lowercase
ToLowercase(str) ==
    [i \in 1..Len(str) |->
        IF \E k \in 1..Len(Upper) : Upper[k] = str[i]
        THEN Lower[CHOOSE k \in 1..Len(Upper) : Upper[k] = str[i]]
        ELSE str[i]]

Digits == <<"0", "1", "2", "3", "4", "5", "6", "7", "8", "9">>

IsDigit(ch) == \E k \in 1..Len(Digits) : Digits[k] = ch

DigitValue(ch) == (CHOOSE k \in 1..Len(Digits) : Digits[k] = ch) - 1

RECURSIVE DecimalValue(_, _)
DecimalValue(str, acc) ==
    IF str = <<>> THEN acc ELSE DecimalValue(Tail(str), acc * 10 + DigitValue(Head(str)))

\* the digits of the outputs checked are few enough to fit the integer type
IsDecimal(str) == str # <<>> /\ \A i \in 1..Len(str) : IsDigit(str[i])

\* str::parse::<u32>()
ParseU32(str) ==
    LET digits == IF str # <<>> /\ Head(str) = "+" THEN Tail(str) ELSE str
    IN  IF IsDecimal(digits) THEN Some(DecimalValue(digits, 0)) ELSE None

\* str::parse::<i32>()
ParseI32(str) ==
    IF str # <<>> /\ Head(str) = "-"
    THEN (IF IsDecimal(Tail(str)) THEN Some(0 - DecimalValue(Tail(str), 0)) ELSE None)
    ELSE ParseU32(str)

\* str::parse::<f32>() on plain decimal notation; the value is kept as its
\* decimal text
ParseF32(str) ==
    LET unsigned == IF str # <<>> /\ Head(str) \in {"+", "-"} THEN Tail(str) ELSE str
        dot == IndexOf(unsigned, ".")
        whole == IF dot = 0 THEN unsigned ELSE SubSeq(unsigned, 1, dot - 1)
        frac == IF dot = 0 THEN <<>> ELSE SubSeq(unsigned, dot + 1, Len(unsigned))
    IN  IF /\ \A i \in 1..Len(whole) : IsDigit(whole[i])
           /\ \A i \in 1..Len(frac) : IsDigit(frac[i])
           /\ whole \o frac # <<>>
        THEN Some(str) ELSE None

\* String::contains on a whole output whose lines hold the needle apart
TextContains(text, part) == \E i \in 1..Len(text) : Contains(text[i], part)

----------------------------------------------------------------------------
(* One invocation of an external binary: std::process::Command::output()   *)

Absent == [spawned |-> FALSE, success |-> FALSE, stdout |-> <<>>]

ExitNonZero(text) == [spawned |-> TRUE, success |-> FALSE, stdout |-> text]

ExitZero(text) == [spawned |-> TRUE, success |-> TRUE, stdout |-> text]

\* stdout handed on whatever the exit status was
StdoutIfSpawned(run) ==
    IF run.spawned THEN Some(run.stdout) ELSE None

\* `.output().ok()?` followed by `if !output.status.success() { return None; }`
StdoutIfSuccess(run) ==
    IF run.spawned /\ run.success THEN Some(run.stdout) ELSE None

\* the outcomes of a binary that prints one of `texts` when it works
ToolRuns(texts) == {Absent, ExitNonZero(<<>>)} \cup {ExitZero(t) : t \in texts}

\* the result of the first strategy that gives one
FirstSome(strategies) ==
    IF \E i \in 1..Len(strategies) : IsSome(strategies[i])
    THEN strategies[CHOOSE i \in 1..Len(strategies) :
                        IsSome(strategies[i]) /\ \A j \in 1..(i - 1) : IsNone(strategies[j])]
    ELSE None

----------------------------------------------------------------------------
(* collect_power.rs *)

EmptyPsu ==
    [name |-> None, manufacturer |-> None, model |-> None, serial_number |-> None,
     part_number |-> None, max_power_watts |-> None, efficiency_rating |-> None,
     status |-> None, input_voltage |-> None, input_current |-> None,
     output_voltage |-> None, output_current |-> None, temperature_c |-> None,
     fan_speed_rpm |-> None]

\* `if power_supplies.is_empty() { None } else { Some(power_supplies) }`
NonEmptyOrNone(vec) == IF vec = <<>> THEN None ELSE Some(vec)

\* a number parsed from the first word of a value
FirstWordParsed(value, parsed) ==
    LET word == FirstWord(value)
    IN  IF IsNone(word) THEN None
        ELSE IF parsed = "u32" THEN ParseU32(Unwrap(word))
        ELSE IF parsed = "i32" THEN ParseI32(Unwrap(word))
        ELSE ParseF32(Unwrap(word))

\* the `match key` of the dmidecode parser
DmidecodeField(psu, key, value) ==
    IF value = <<>> \/ value = <<"N", "o", "t", " ", "S", "p", "e", "c", "i", "f", "i", "e", "d">> \/ value = <<"T", "o", " ", "B", "e", " ", "F", "i", "l", "l", "e", "d", " ", "B", "y", " ", "O", ".", "E", ".", "M", ".">> THEN psu
    ELSE IF key = <<"M", "a", "n", "u", "f", "a", "c", "t", "u", "r", "e", "r">> THEN [psu EXCEPT !.manufacturer = Some(value)]
    ELSE IF key = <<"M", "o", "d", "e", "l">> THEN [psu EXCEPT !.model = Some(value)]
    ELSE IF key = <<"S", "e", "r", "i", "a", "l", " ", "N", "u", "m", "b", "e", "r">> THEN [psu EXCEPT !.serial_number = Some(value)]
    ELSE IF key = <<"P", "a", "r", "t", " ", "N", "u", "m", "b", "e", "r">> THEN [psu EXCEPT !.part_number = Some(value)]
    ELSE IF key = <<"N", "a", "m", "e">> THEN [psu EXCEPT !.name = Some(value)]
    ELSE IF key = <<"M", "a", "x", " ", "P", "o", "w", "e", "r", " ", "C", "a", "p", "a", "c", "i", "t", "y">>
         THEN LET watts == FirstWordParsed(value, "u32")
              IN  IF IsSome(watts) THEN [psu EXCEPT !.max_power_watts = watts] ELSE psu
    ELSE IF key = <<"S", "t", "a", "t", "u", "s">> THEN [psu EXCEPT !.status = Some(value)]
    ELSE psu

\* the loop over the lines of `dmidecode -t power -t powersupply`; st holds
\* power_supplies, current_psu and in_power_supply
RECURSIVE DmidecodeLines(_, _)
DmidecodeLines(lines, st) ==
    IF lines = <<>> THEN st
    ELSE LET line == TrimStr(Head(lines))
             kv == SplitOnce(line, ":")
             next ==
                IF Contains(line, <<"P", "o", "w", "e", "r", " ", "S", "u", "p", "p", "l", "y">>) /\ Contains(line, <<"H", "a", "n", "d", "l", "e">>)
                THEN [power_supplies |-> IF st.in_power_supply
                                         THEN Append(st.power_supplies, st.current_psu)
                                         ELSE st.power_supplies,
                      current_psu |-> IF st.in_power_supply THEN EmptyPsu ELSE st.current_psu,
                      in_power_supply |-> TRUE]
                ELSE IF st.in_power_supply /\ IsSome(kv)
                THEN [st EXCEPT !.current_psu =
                        DmidecodeField(@, TrimStr(Unwrap(kv)[1]), TrimStr(Unwrap(kv)[2]))]
                ELSE st
         IN  DmidecodeLines(Tail(lines), next)

\* a parser that forgets the record still open at the end of the text
collect_power_supplies_dmidecode_without_last(runs) ==
    LET text == StdoutIfSuccess(runs.dmidecode)
        st == DmidecodeLines(Unwrap(text),
                [power_supplies |-> <<>>, current_psu |-> EmptyPsu, in_power_supply |-> FALSE])
    IN  IF IsNone(text) THEN None ELSE NonEmptyOrNone(st.power_supplies)

collect_power_supplies_dmidecode(runs) ==
    LET text == StdoutIfSuccess(runs.dmidecode)
        st == DmidecodeLines(Unwrap(text),
                [power_supplies |-> <<>>, current_psu |-> EmptyPsu, in_power_supply |-> FALSE])
    IN  IF IsNone(text) THEN None
        ELSE NonEmptyOrNone(IF st.in_power_supply
                            THEN Append(st.power_supplies, st.current_psu)
                            ELSE st.power_supplies)

\* value_str of the first "Sensor Reading" lines, the last one that parses
\* wins
RECURSIVE SensorReading(_, _, _, _)
SensorReading(lines, unit, parsed, found) ==
    IF lines = <<>> THEN found
    ELSE LET line == Head(lines)
             value == SplitNth1(line, ":")
             reading ==
                IF /\ Contains(line, <<"S", "e", "n", "s", "o", "r", " ", "R", "e", "a", "d", "i", "n", "g">>)
                   /\ IsSome(value)
                   /\ Contains(TrimStr(Unwrap(value)), unit)
                THEN FirstWordParsed(TrimStr(Unwrap(value)), parsed)
                ELSE None
         IN  SensorReading(Tail(lines), unit, parsed, IF IsSome(reading) THEN reading ELSE found)

\* `ipmitool sdr get <name>`
get_ipmi_psu_details(runs, psu_name) ==
    LET text == StdoutIfSuccess(runs.ipmitool_sdr_get)
    IN  IF IsNone(text) THEN None
        ELSE Some([EmptyPsu EXCEPT
                    !.name = Some(psu_name),
                    !.output_voltage = SensorReading(Unwrap(text), <<"V", "o", "l", "t", "s">>, "f32", None),
                    !.temperature_c = SensorReading(Unwrap(text), <<"d", "e", "g", "r", "e", "e", "s", " ", "C">>, "i32", None)])

\* the first three '|' separated parts of a line, None when there are fewer
PipeParts(line) ==
    LET one == SplitOnce(line, "|")
        two == IF IsSome(one) THEN SplitOnce(Unwrap(one)[2], "|") ELSE None
        third == IF IsSome(two) THEN SplitOnce(Unwrap(two)[2], "|") ELSE None
    IN  IF IsNone(two) THEN None
        ELSE Some(<<Unwrap(one)[1], Unwrap(two)[1],
                    IF IsSome(third) THEN Unwrap(third)[1] ELSE Unwrap(two)[2]>>)

RECURSIVE IpmiSdrLines(_, _)
IpmiSdrLines(lines, runs) ==
    IF lines = <<>> THEN <<>>
    ELSE LET line == Head(lines)
             lower == ToLowercase(line)
             parts == PipeParts(line)
             rest == IpmiSdrLines(Tail(lines), runs)
         IN  IF /\ Contains(lower, <<"p", "o", "w", "e", "r">>)
                /\ (Contains(lower, <<"s", "u", "p", "p", "l", "y">>) \/ Contains(lower, <<"p", "s", "u">>))
                /\ IsSome(parts)
             THEN LET name == TrimStr(Unwrap(parts)[1])
                      detailed == get_ipmi_psu_details(runs, name)
                      psu == [EmptyPsu EXCEPT !.name = Some(name),
                                              !.status = Some(TrimStr(Unwrap(parts)[3]))]
                      with_temp == IF IsSome(detailed) /\ IsSome(Unwrap(detailed).temperature_c)
                                   THEN [psu EXCEPT !.temperature_c = Unwrap(detailed).temperature_c]
                                   ELSE psu
                      with_volt == IF IsSome(detailed) /\ IsSome(Unwrap(detailed).output_voltage)
                                   THEN [with_temp EXCEPT !.output_voltage = Unwrap(detailed).output_voltage]
                                   ELSE with_temp
                  IN  <<with_volt>> \o rest
             ELSE rest

\* `ipmitool sdr list full`
collect_power_supplies_ipmi(runs) ==
    LET text == StdoutIfSuccess(runs.ipmitool_sdr_list)
    IN  IF IsNone(text) THEN None
        ELSE NonEmptyOrNone(IpmiSdrLines(Unwrap(text), runs))

\* `lshw -class power`
collect_power_supplies_lshw(runs) ==
    LET text == StdoutIfSuccess(runs.lshw)
    IN  IF IsNone(text) THEN None
        ELSE IF TextContains(Unwrap(text), <<"p", "o", "w", "e", "r">>)
        THEN Some(<<[EmptyPsu EXCEPT !.name = Some(<<"S", "y", "s", "t", "e", "m", " ", "P", "o", "w", "e", "r", " ", "S", "u", "p", "p", "l", "y">>),
                                     !.status = Some(<<"P", "r", "e", "s", "e", "n", "t">>)]>>)
        ELSE None

ApcField(ups, key, value) ==
    IF key = <<"M", "O", "D", "E", "L">> THEN [ups EXCEPT !.model = Some(value)]
    ELSE IF key = <<"S", "E", "R", "I", "A", "L", "N", "O">> THEN [ups EXCEPT !.serial_number = Some(value)]
    ELSE IF key = <<"S", "T", "A", "T", "U", "S">> THEN [ups EXCEPT !.status = Some(value)]
    ELSE IF key = <<"L", "I", "N", "E", "V">>
         THEN LET v == FirstWordParsed(value, "f32")
              IN  IF IsSome(v) THEN [ups EXCEPT !.input_voltage = v] ELSE ups
    ELSE IF key = <<"O", "U", "T", "P", "U", "T", "V">>
         THEN LET v == FirstWordParsed(value, "f32")
              IN  IF IsSome(v) THEN [ups EXCEPT !.output_voltage = v] ELSE ups
    ELSE IF key = <<"I", "T", "E", "M", "P">>
         THEN LET v == FirstWordParsed(value, "i32")
              IN  IF IsSome(v) THEN [ups EXCEPT !.temperature_c = v] ELSE ups
    ELSE ups

NutField(ups, key, value) ==
    IF key = <<"d", "e", "v", "i", "c", "e", ".", "m", "f", "r">> THEN [ups EXCEPT !.manufacturer = Some(value)]
    ELSE IF key = <<"d", "e", "v", "i", "c", "e", ".", "m", "o", "d", "e", "l">> THEN [ups EXCEPT !.model = Some(value)]
    ELSE IF key = <<"d", "e", "v", "i", "c", "e", ".", "s", "e", "r", "i", "a", "l">> THEN [ups EXCEPT !.serial_number = Some(value)]
    ELSE IF key = <<"u", "p", "s", ".", "s", "t", "a", "t", "u", "s">> THEN [ups EXCEPT !.status = Some(value)]
    ELSE IF key = <<"i", "n", "p", "u", "t", ".", "v", "o", "l", "t", "a", "g", "e">>
         THEN (IF IsSome(ParseF32(value)) THEN [ups EXCEPT !.input_voltage = ParseF32(value)] ELSE ups)
    ELSE IF key = <<"o", "u", "t", "p", "u", "t", ".", "v", "o", "l", "t", "a", "g", "e">>
         THEN (IF IsSome(ParseF32(value)) THEN [ups EXCEPT !.output_voltage = ParseF32(value)] ELSE ups)
    ELSE IF key = <<"u", "p", "s", ".", "t", "e", "m", "p", "e", "r", "a", "t", "u", "r", "e">>
         THEN (IF IsSome(ParseI32(value)) THEN [ups EXCEPT !.temperature_c = ParseI32(value)] ELSE ups)
    ELSE ups

\* the `for line in text.lines()` loop of both UPS parsers
RECURSIVE UpsLines(_, _, _)
UpsLines(lines, ups, daemon) ==
    IF lines = <<>> THEN ups
    ELSE LET kv == SplitOnce(Head(lines), ":")
             key == TrimStr(Unwrap(kv)[1])
             value == TrimStr(Unwrap(kv)[2])
         IN  UpsLines(Tail(lines),
                      IF IsNone(kv) THEN ups
                      ELSE IF daemon = "apcupsd" THEN ApcField(ups, key, value)
                      ELSE NutField(ups, key, value),
                      daemon)

\* `apcaccess status`
collect_apcupsd_info(run) ==
    LET text == StdoutIfSuccess(run)
    IN  IF IsNone(text) THEN None
        ELSE Some(UpsLines(Unwrap(text), [EmptyPsu EXCEPT !.name = Some(<<"U", "P", "S">>),
                                                          !.manufacturer = Some(<<"A", "P", "C">>)], "apcupsd"))

\* `upsc ups`
collect_nut_info(run) ==
    LET text == StdoutIfSuccess(run)
    IN  IF IsNone(text) THEN None
        ELSE Some(UpsLines(Unwrap(text), [EmptyPsu EXCEPT !.name = Some(<<"U", "P", "S">>)], "nut"))

collect_ups_information(runs) ==
    LET apc == collect_apcupsd_info(runs.apcaccess)
        nut == collect_nut_info(runs.upsc)
    IN  IF IsSome(apc) THEN Some(<<Unwrap(apc)>>)
        ELSE IF IsSome(nut) THEN Some(<<Unwrap(nut)>>)
        ELSE None

\* fs::read_to_string(..) then trim, kept when the file could be read
SysfsTrimmed(attribute) ==
    IF IsSome(attribute) THEN Some(TrimStr(Unwrap(attribute))) ELSE None

\* the loop over /sys/class/power_supply; a name that is not UTF-8 (None)
\* ends the whole strategy through `to_str()?`
RECURSIVE PowerSupplyEntries(_, _)
PowerSupplyEntries(entries, power_supplies) ==
    IF entries = <<>> THEN NonEmptyOrNone(power_supplies)
    ELSE LET entry == Head(entries)
         IN  IF IsNone(entry.name) THEN None
             ELSE IF StartsWith(Unwrap(entry.name), <<"B", "A", "T">>) \/ StartsWith(Unwrap(entry.name), <<"A", "D", "P">>)
             THEN PowerSupplyEntries(Tail(entries), power_supplies)
             ELSE PowerSupplyEntries(Tail(entries),
                    Append(power_supplies,
                           [EmptyPsu EXCEPT !.name = entry.name,
                                            !.status = SysfsTrimmed(entry.status),
                                            !.manufacturer = SysfsTrimmed(entry.manufacturer),
                                            !.model = SysfsTrimmed(entry.model_name),
                                            !.serial_number = SysfsTrimmed(entry.serial_number)]))

collect_power_supplies_sysfs(class_power_supply) ==
    IF IsNone(class_power_supply) THEN None
    ELSE PowerSupplyEntries(Unwrap(class_power_supply), <<>>)

\* `if let Some(mut psu_vec) = ... { power_supplies.append(&mut psu_vec); }`
Appended(power_supplies, strategy) ==
    IF IsSome(strategy) THEN power_supplies \o Unwrap(strategy) ELSE power_supplies

\* a collection that stops at the first strategy that found something
collect_power_supplies_first_found(class_power_supply, runs) ==
    LET found == FirstSome(<<collect_power_supplies_dmidecode(runs),
                              collect_power_supplies_ipmi(runs),
                              collect_power_supplies_lshw(runs),
                              collect_ups_information(runs),
                              collect_power_supplies_sysfs(class_power_supply)>>)
    IN  IF IsSome(found) THEN Unwrap(found) ELSE <<>>

collect_power_supplies(class_power_supply, runs) ==
    Appended(Appended(Appended(Appended(Appended(<<>>,
        collect_power_supplies_dmidecode(runs)),
        collect_power_supplies_ipmi(runs)),
        collect_power_supplies_lshw(runs)),
        collect_ups_information(runs)),
        collect_power_supplies_sysfs(class_power_supply))

----------------------------------------------------------------------------
(* What the power subcommand is run against *)

DmidecodeTexts ==
    {<<>>,
     <<<<"#", " ", "d", "m", "i", "d", "e", "c", "o", "d", "e", " ", "3", ".", "3">>, <<"H", "a", "n", "d", "l", "e", " ", "0", "x", "0", "0", "2", "7", ",", " ", "D", "M", "I", " ", "t", "y", "p", "e", " ", "3", "9", ",", " ", "2", "2", " ", "b", "y", "t", "e", "s">>, <<"S", "y", "s", "t", "e", "m", " ", "P", "o", "w", "e", "r", " ", "S", "u", "p", "p", "l", "y">>,
       <<" ", " ", " ", " ", "N", "a", "m", "e", ":", " ", "P", "W", "R", " ", "S", "P", "L", "Y">>, <<" ", " ", " ", " ", "M", "a", "x", " ", "P", "o", "w", "e", "r", " ", "C", "a", "p", "a", "c", "i", "t", "y", ":", " ", "7", "5", "0", " ", "W">>>>,
     <<<<"P", "o", "w", "e", "r", " ", "S", "u", "p", "p", "l", "y", " ", "H", "a", "n", "d", "l", "e", " ", "0", "x", "0", "0", "2", "7">>, <<" ", " ", "N", "a", "m", "e", ":", " ", "P", "S", "U", "1">>>>,
     <<<<"P", "o", "w", "e", "r", " ", "S", "u", "p", "p", "l", "y", " ", "H", "a", "n", "d", "l", "e", " ", "0", "x", "0", "0", "2", "7">>, <<" ", " ", "N", "a", "m", "e", ":", " ", "P", "S", "U", "1">>, <<" ", " ", "M", "a", "x", " ", "P", "o", "w", "e", "r", " ", "C", "a", "p", "a", "c", "i", "t", "y", ":", " ", "7", "5", "0", " ", "W">>,
       <<" ", " ", "S", "e", "r", "i", "a", "l", " ", "N", "u", "m", "b", "e", "r", ":", " ", "N", "o", "t", " ", "S", "p", "e", "c", "i", "f", "i", "e", "d">>, <<"P", "o", "w", "e", "r", " ", "S", "u", "p", "p", "l", "y", " ", "H", "a", "n", "d", "l", "e", " ", "0", "x", "0", "0", "2", "8">>, <<" ", " ", "M", "o", "d", "e", "l", ":", " ", "D", "P", "S", "-", "7", "5", "0">>>>}

SdrListTexts ==
    {<<>>,
     <<<<"C", "P", "U", " ", "T", "e", "m", "p", " ", "|", " ", "4", "0", " ", "d", "e", "g", "r", "e", "e", "s", " ", "C", " ", "|", " ", "o", "k">>>>,
     <<<<"P", "o", "w", "e", "r", " ", "S", "u", "p", "p", "l", "y", " ", "1", " ", "|", " ", "0", "x", "0", "1", " ", "|", " ", "o", "k">>, <<"P", "S", "U", " ", "P", "o", "w", "e", "r">>>>}

SdrGetTexts ==
    {<<>>, <<<<"S", "e", "n", "s", "o", "r", " ", "I", "D", " ", ":", " ", "P", "o", "w", "e", "r", " ", "S", "u", "p", "p", "l", "y", " ", "1">>, <<"S", "e", "n", "s", "o", "r", " ", "R", "e", "a", "d", "i", "n", "g", " ", ":", " ", "1", "2", ".", "1", " ", "(", "+", "/", "-", " ", "0", ")", " ", "V", "o", "l", "t", "s">>>>}

LshwTexts ==
    {<<>>, <<<<"W", "A", "R", "N", "I", "N", "G", ":", " ", "y", "o", "u", " ", "s", "h", "o", "u", "l", "d", " ", "r", "u", "n", " ", "t", "h", "i", "s", " ", "p", "r", "o", "g", "r", "a", "m", " ", "a", "s", " ", "s", "u", "p", "e", "r", "-", "u", "s", "e", "r", ".">>>>, <<<<" ", " ", "*", "-", "p", "o", "w", "e", "r", " ", "U", "N", "C", "L", "A", "I", "M", "E", "D">>>>}

ApcaccessTexts ==
    {<<>>,
     <<<<"a", "p", "c", "a", "c", "c", "e", "s", "s">>>>,
     <<<<"M", "O", "D", "E", "L", " ", " ", " ", " ", ":", " ", "S", "m", "a", "r", "t", "-", "U", "P", "S", " ", "1", "5", "0", "0">>, <<"S", "T", "A", "T", "U", "S", " ", " ", " ", ":", " ", "O", "N", "L", "I", "N", "E">>, <<"L", "I", "N", "E", "V", " ", " ", " ", " ", ":", " ", "1", "2", "0", ".", "0", " ", "V", "o", "l", "t", "s">>,
       <<"I", "T", "E", "M", "P", " ", " ", " ", " ", ":", " ", "2", "9", " ", "C">>>>}

UpscTexts ==
    {<<>>, <<<<"d", "e", "v", "i", "c", "e", ".", "m", "f", "r", ":", " ", "E", "A", "T", "O", "N">>, <<"u", "p", "s", ".", "s", "t", "a", "t", "u", "s", ":", " ", "O", "L">>, <<"i", "n", "p", "u", "t", ".", "v", "o", "l", "t", "a", "g", "e", ":", " ", "2", "3", "0", ".", "1">>>>}

PowerSupplyEntry(name, status) ==
    [name |-> name, status |-> status, manufacturer |-> None, model_name |-> None,
     serial_number |-> None]

PowerSupplyListings ==
    {None,
     Some(<<>>),
     Some(<<PowerSupplyEntry(Some(<<"B", "A", "T", "0">>), Some(<<"F", "u", "l", "l", " ">>))>>),
     Some(<<PowerSupplyEntry(Some(<<"A", "D", "P", "1">>), None), PowerSupplyEntry(Some(<<"u", "c", "s", "i", "-", "s", "o", "u", "r", "c", "e", "-", "p", "s", "y">>), Some(<<"O", "n", "l", "i", "n", "e", " ">>))>>),
     Some(<<PowerSupplyEntry(Some(<<"h", "i", "d", "p", "p", "_", "b", "a", "t", "t", "e", "r", "y", "_", "0">>), None), PowerSupplyEntry(None, None)>>)}

PowerTools ==
    [dmidecode : ToolRuns(DmidecodeTexts),
     ipmitool_sdr_list : ToolRuns(SdrListTexts),
     ipmitool_sdr_get : ToolRuns(SdrGetTexts),
     lshw : ToolRuns(LshwTexts),
     apcaccess : ToolRuns(ApcaccessTexts),
     upsc : ToolRuns(UpscTexts)]

----------------------------------------------------------------------------
(* collect_storage.rs *)

\* read_to_string_trim: the file's text trimmed, None when the file cannot
\* be read or holds nothing but whitespace
read_to_string_trim(file) ==
    IF IsNone(file) THEN None
    ELSE IF TrimStr(Unwrap(file)) = <<>> THEN None
    ELSE Some(TrimStr(Unwrap(file)))

\* read_to_u64 (the sizes checked fit the integer type)
read_to_u64(file) ==
    IF IsNone(read_to_string_trim(file)) THEN None
    ELSE ParseU32(Unwrap(read_to_string_trim(file)))

\* the value after the first ':' of the first trimmed line that `matches`
\* and has a non-empty value there
RECURSIVE FirstLabelled(_, _, _)
FirstLabelled(lines, labels, by_prefix) ==
    IF lines = <<>> THEN None
    ELSE LET line == TrimStr(Head(lines))
             matches == \E l \in labels :
                          IF by_prefix THEN StartsWith(line, l) ELSE Contains(line, l)
             value == SplitNth1(line, ":")
         IN  IF matches /\ IsSome(value) /\ TrimStr(Unwrap(value)) # <<>>
             THEN Some(TrimStr(Unwrap(value)))
             ELSE FirstLabelled(Tail(lines), labels, by_prefix)

\* `smartctl -i [-d nvme] <dev>`
get_firmware_from_smartctl(runs) ==
    LET text == StdoutIfSuccess(runs.smartctl_i)
    IN  IF IsNone(text) THEN None
        ELSE FirstLabelled(Unwrap(text), {<<"F", "i", "r", "m", "w", "a", "r", "e", " ", "V", "e", "r", "s", "i", "o", "n", ":">>, <<"F", "i", "r", "m", "w", "a", "r", "e", " ", "R", "e", "v", "i", "s", "i", "o", "n", ":">>}, TRUE)

\* `hdparm -I <dev>`
get_firmware_from_hdparm(runs) ==
    LET text == StdoutIfSuccess(runs.hdparm)
    IN  IF IsNone(text) THEN None
        ELSE FirstLabelled(Unwrap(text), {<<"F", "i", "r", "m", "w", "a", "r", "e", " ", "R", "e", "v", "i", "s", "i", "o", "n", ":">>, <<"F", "W", " ", "R", "e", "v", "i", "s", "i", "o", "n", ":">>}, FALSE)

get_firmware_version(runs, bus_type) ==
    IF IsSome(get_firmware_from_smartctl(runs)) THEN get_firmware_from_smartctl(runs)
    ELSE IF bus_type = Some(<<"s", "c", "s", "i">>) THEN get_firmware_from_hdparm(runs)
    ELSE None

get_serial_from_smartctl(runs) ==
    LET text == StdoutIfSuccess(runs.smartctl_i)
    IN  IF IsNone(text) THEN None
        ELSE FirstLabelled(Unwrap(text), {<<"S", "e", "r", "i", "a", "l", " ", "N", "u", "m", "b", "e", "r", ":">>, <<"S", "e", "r", "i", "a", "l", " ", "n", "u", "m", "b", "e", "r", ":">>}, TRUE)

get_serial_from_hdparm(runs) ==
    LET text == StdoutIfSuccess(runs.hdparm)
    IN  IF IsNone(text) THEN None
        ELSE FirstLabelled(Unwrap(text), {<<"S", "e", "r", "i", "a", "l", " ", "N", "u", "m", "b", "e", "r", ":">>}, FALSE)

\* a fallback that asks hdparm before smartctl
get_serial_number_hdparm_first(runs, bus_type) ==
    IF bus_type = Some(<<"s", "c", "s", "i">>) /\ IsSome(get_serial_from_hdparm(runs))
    THEN get_serial_from_hdparm(runs)
    ELSE get_serial_from_smartctl(runs)

get_serial_number(runs, bus_type) ==
    IF IsSome(get_serial_from_smartctl(runs)) THEN get_serial_from_smartctl(runs)
    ELSE IF bus_type = Some(<<"s", "c", "s", "i">>) THEN get_serial_from_hdparm(runs)
    ELSE None

\* `udevadm info --query=property --name <dev>`: the first line `<key>=...`
RECURSIVE UdevProperty(_, _)
UdevProperty(lines, key) ==
    IF lines = <<>> THEN None
    ELSE IF StartsWith(Head(lines), key \o <<"=">>)
    THEN Some(TrimStr(SubSeq(Head(lines), Len(key) + 2, Len(Head(lines)))))
    ELSE UdevProperty(Tail(lines), key)

read_udev_property(runs, key) ==
    LET text == StdoutIfSuccess(runs.udevadm)
    IN  IF IsNone(text) THEN None ELSE UdevProperty(Unwrap(text), key)

\* the name the `subsystem` link points to, else the udev property ID_BUS
detect_bus_type(disk, runs) ==
    IF IsSome(disk.subsystem) THEN disk.subsystem
    ELSE read_udev_property(runs, <<"I", "D", "_", "B", "U", "S">>)

\* `smartctl -H [-d nvme] <dev>`
smartctl_health(runs) ==
    LET text == StdoutIfSuccess(runs.smartctl_h)
    IN  IF IsNone(text) THEN None
        ELSE Some([health |-> IF TextContains(Unwrap(text), <<"P", "A", "S", "S", "E", "D">>) THEN Some(<<"P", "A", "S", "S", "E", "D">>)
                              ELSE IF TextContains(Unwrap(text), <<"F", "A", "I", "L", "E", "D">>) THEN Some(<<"F", "A", "I", "L", "E", "D">>)
                              ELSE None])

\* `nvme smart-log <dev>`
nvme_cli_smart(runs, bus_type) ==
    IF bus_type # Some(<<"n", "v", "m", "e">>) THEN None
    ELSE IF IsNone(StdoutIfSuccess(runs.nvme_cli)) THEN None
    ELSE Some([health |-> None])

collect_smart_info(runs, bus_type) ==
    IF IsSome(smartctl_health(runs)) THEN smartctl_health(runs)
    ELSE nvme_cli_smart(runs, bus_type)

\* `name.split('n').next().unwrap_or(name)`
NvmeController(name) ==
    IF IndexOf(name, "n") = 0 THEN name ELSE SubSeq(name, 1, IndexOf(name, "n") - 1)

\* an attribute file of /sys/class/nvme/<controller>
NvmeAttribute(class_nvme, controller, attribute) ==
    IF controller \in DOMAIN class_nvme THEN class_nvme[controller][attribute] ELSE None

OrElse(first, second) == IF IsSome(first) THEN first ELSE second

collect_single_disk(disk, class_nvme, runs) ==
    LET is_nvme == StartsWith(disk.name, <<"n", "v", "m", "e">>)
        controller == NvmeController(disk.name)
        sysfs_serial == read_to_string_trim(disk.serial)
        serial == IF is_nvme
                  THEN OrElse(sysfs_serial,
                              read_to_string_trim(NvmeAttribute(class_nvme, controller, "serial")))
                  ELSE sysfs_serial
        size_sectors == read_to_u64(disk.size)
        rotational == read_to_u64(disk.rotational)
        bus_type == IF is_nvme THEN Some(<<"n", "v", "m", "e">>) ELSE detect_bus_type(disk, runs)
        firmware_version ==
            IF is_nvme
            THEN read_to_string_trim(NvmeAttribute(class_nvme, controller, "firmware_rev"))
            ELSE None
    IN  [name |-> disk.name,
         dev_path |-> <<"/", "d", "e", "v", "/">> \o disk.name,
         model |-> read_to_string_trim(disk.model),
         serial |-> OrElse(serial, get_serial_number(runs, bus_type)),
         size_bytes |-> IF IsSome(size_sectors)
                        THEN Some(U64Mul(U64(Unwrap(size_sectors)), 512)) ELSE None,
         rotational |-> IF IsSome(rotational) THEN Some(Unwrap(rotational) = 1) ELSE None,
         bus_type |-> bus_type,
         firmware_version |-> OrElse(firmware_version, get_firmware_version(runs, bus_type)),
         smart |-> collect_smart_info(runs, bus_type)]

SkippedDiskPrefixes == {<<"l", "o", "o", "p">>, <<"r", "a", "m">>, <<"d", "m", "-">>, <<"z", "r", "a", "m">>}

RECURSIVE Disks(_, _, _)
Disks(entries, class_nvme, runs) ==
    IF entries = <<>> THEN <<>>
    ELSE LET disk == Head(entries)
             rest == Disks(Tail(entries), class_nvme, runs)
         IN  IF \E prefix \in SkippedDiskPrefixes : StartsWith(disk.name, prefix) THEN rest
             ELSE IF ~disk.dev_exists THEN rest
             ELSE <<collect_single_disk(disk, class_nvme, runs[disk.name])>> \o rest

\* block is the listing of /sys/block (None when it cannot be read); runs
\* gives, per device, the outcome of each binary invoked on it
collect_disks(block, class_nvme, runs) ==
    IF IsNone(block) THEN <<>> ELSE Disks(Unwrap(block), class_nvme, runs)

----------------------------------------------------------------------------
(* What the storage subcommand is run against *)

Disk(name, dev_exists, serial, subsystem, size, rotational) ==
    [name |-> name, dev_exists |-> dev_exists, model |-> Some(<<"S", "a", "m", "s", "u", "n", "g", " ", "S", "S", "D", " ", "8", "6", "0", " ", "\n">>),
     serial |-> serial, subsystem |-> subsystem, size |-> size, rotational |-> rotational]

DiskRuns(smartctl_i, hdparm, udevadm, smartctl_h, nvme_cli) ==
    [smartctl_i |-> smartctl_i, hdparm |-> hdparm, udevadm |-> udevadm,
     smartctl_h |-> smartctl_h, nvme_cli |-> nvme_cli]

NoDiskTools == DiskRuns(Absent, Absent, Absent, Absent, Absent)

SmartctlInfoTexts ==
    {<<>>,
     <<<<"s", "m", "a", "r", "t", "c", "t", "l", " ", "7", ".", "2">>, <<"S", "e", "r", "i", "a", "l", " ", "N", "u", "m", "b", "e", "r", ":", " ", " ", " ", " ", "S", "3", "Z", "8", "N", "B", "0", "K">>, <<"F", "i", "r", "m", "w", "a", "r", "e", " ", "V", "e", "r", "s", "i", "o", "n", ":", " ", "R", "V", "T", "0", "2", "B", "6", "Q">>>>,
     <<<<"S", "e", "r", "i", "a", "l", " ", "n", "u", "m", "b", "e", "r", ":">>, <<"F", "i", "r", "m", "w", "a", "r", "e", " ", "R", "e", "v", "i", "s", "i", "o", "n", ":", " ">>, <<"L", "o", "c", "a", "l", " ", "T", "i", "m", "e", " ", "i", "s", ":", " ", " ", " ", " ", "S", "u", "n", " ", "N", "o", "v", " ", " ", "1", " ", "2", "0", ":", "0", "0", ":", "0", "0">>>>}

HdparmTexts ==
    {<<>>, <<<<" ", " ", " ", " ", " ", " ", " ", " ", "S", "e", "r", "i", "a", "l", " ", "N", "u", "m", "b", "e", "r", ":", " ", " ", " ", " ", " ", " ", "W", "D", "-", "W", "C", "C", "4">>, <<" ", " ", " ", " ", " ", " ", " ", " ", "F", "i", "r", "m", "w", "a", "r", "e", " ", "R", "e", "v", "i", "s", "i", "o", "n", ":", " ", " ", "8", "0", ".", "0", "0", "A", "8", "0">>>>}

UdevadmTexts ==
    {<<>>, <<<<"I", "D", "_", "B", "U", "S", "_", "T", "Y", "P", "E", "=", "x">>, <<"I", "D", "_", "B", "U", "S", "=", "a", "t", "a", " ">>>>}

SmartctlHealthTexts ==
    {<<>>,
     <<<<"S", "M", "A", "R", "T", " ", "s", "u", "p", "p", "o", "r", "t", " ", "i", "s", ":", " ", "U", "n", "a", "v", "a", "i", "l", "a", "b", "l", "e">>>>,
     <<<<"S", "M", "A", "R", "T", " ", "o", "v", "e", "r", "a", "l", "l", "-", "h", "e", "a", "l", "t", "h", " ", "s", "e", "l", "f", "-", "a", "s", "s", "e", "s", "s", "m", "e", "n", "t", " ", "t", "e", "s", "t", " ", "r", "e", "s", "u", "l", "t", ":", " ", "P", "A", "S", "S", "E", "D">>>>,
     <<<<"S", "M", "A", "R", "T", " ", "o", "v", "e", "r", "a", "l", "l", "-", "h", "e", "a", "l", "t", "h", " ", "s", "e", "l", "f", "-", "a", "s", "s", "e", "s", "s", "m", "e", "n", "t", " ", "t", "e", "s", "t", " ", "r", "e", "s", "u", "l", "t", ":", " ", "F", "A", "I", "L", "E", "D", "!">>>>,
     <<<<"S", "M", "A", "R", "T", " ", "H", "e", "a", "l", "t", "h", " ", "S", "t", "a", "t", "u", "s", ":", " ", "F", "A", "I", "L", "E", "D">>, <<"p", "r", "e", "v", "i", "o", "u", "s", " ", "r", "e", "s", "u", "l", "t", ":", " ", "P", "A", "S", "S", "E", "D">>>>}

NvmeCliTexts == {<<>>, <<<<"c", "r", "i", "t", "i", "c", "a", "l", "_", "w", "a", "r", "n", "i", "n", "g", " ", ":", " ", "0">>>>}

DiskNames == {<<"s", "d", "a">>, <<"v", "d", "a">>, <<"n", "v", "m", "e", "0", "n", "1">>, <<"l", "o", "o", "p", "0">>, <<"r", "a", "m", "0">>, <<"d", "m", "-", "0">>, <<"z", "r", "a", "m", "0">>}

\* namespace devices nvme<c>n<k>
NvmeNamespaces == {<<"n", "v", "m", "e", "0", "n", "1">>, <<"n", "v", "m", "e", "1", "n", "2">>, <<"n", "v", "m", "e", "1", "0", "n", "1">>}

Sectors == <<"1", "9", "5", "3", "5", "2", "5", "1", "6", "8", "\n">>

\* one device with the binaries that are run on it
DiskCases ==
    \* every name, with and without a device node
    { [disk |-> Disk(n, e, None, None, Some(Sectors), Some(<<"0", "\n">>)), runs |-> NoDiskTools] :
        n \in DiskNames, e \in BOOLEAN }
    \* the size and rotational files
    \cup { [disk |-> Disk(<<"s", "d", "a">>, TRUE, None, None, sz, rot), runs |-> NoDiskTools] :
        sz \in {None, Some(<<"\n">>), Some(<<"x", "1">>)}, rot \in {None, Some(<<"1", "\n">>), Some(<<"2">>)} }
    \* serial and firmware of a disk by its bus
    \cup { [disk |-> Disk(<<"s", "d", "a">>, TRUE, ser, sub, Some(Sectors), Some(<<"1", "\n">>)),
            runs |-> DiskRuns(i, h, u, Absent, Absent)] :
        ser \in {None, Some(<<"S", "Y", "S", "F", "S", "1", "2", "3", "\n">>)},
        sub \in {None, Some(<<"s", "c", "s", "i">>), Some(<<"v", "i", "r", "t", "i", "o">>)},
        i \in ToolRuns(SmartctlInfoTexts),
        h \in ToolRuns(HdparmTexts),
        u \in ToolRuns(UdevadmTexts) }
    \* serial and firmware of an NVMe namespace
    \cup { [disk |-> Disk(n, TRUE, ser, None, Some(Sectors), Some(<<"0", "\n">>)),
            runs |-> DiskRuns(i, h, Absent, Absent, Absent)] :
        n \in NvmeNamespaces,
        ser \in {None, Some(<<"S", "Y", "S", "F", "S", "1", "2", "3", "\n">>)}, i \in ToolRuns(SmartctlInfoTexts),
        h \in {Absent} \cup {ExitZero(t) : t \in HdparmTexts} }
    \* the health verdict
    \cup { [disk |-> Disk(n, TRUE, None, Some(<<"s", "c", "s", "i">>), Some(Sectors), Some(<<"0", "\n">>)),
            runs |-> DiskRuns(Absent, Absent, Absent, h, c)] :
        n \in {<<"s", "d", "a">>, <<"n", "v", "m", "e", "0", "n", "1">>},
        h \in ToolRuns(SmartctlHealthTexts) \cup {ExitNonZero(t) : t \in SmartctlHealthTexts},
        c \in ToolRuns(NvmeCliTexts) }

NvmeControllerFiles == [firmware_rev |-> Some(<<"2", "B", "2", "Q", "E", "X", "M", "7", "\n">>), serial |-> Some(<<"S", "4", "E", "W", "N", "X", "0", "M", "\n">>)]

\* /sys/class/nvme
NvmeClasses == {<<>>, [c \in {<<"n", "v", "m", "e", "0">>, <<"n", "v", "m", "e", "1">>, <<"n", "v", "m", "e", "1", "0">>} |-> NvmeControllerFiles]}

\* /sys/block with the binaries' outcomes per device
BlockCases ==
    {[block |-> None, runs |-> <<>>], [block |-> Some(<<>>), runs |-> <<>>]}
    \cup {[block |-> Some(<<c.disk>>), runs |-> [n \in {c.disk.name} |-> c.runs]] : c \in DiskCases}

----------------------------------------------------------------------------
(* collect_node.rs *)

\* `.to_utf8_lossy().filter(|s| !s.is_empty() && <s is none of placeholders>)`
DmiString(s, placeholders) ==
    IF IsSome(s) /\ Unwrap(s) # "" /\ Unwrap(s) \notin placeholders THEN s ELSE None

NoDmiInfo ==
    [product_name |-> None, manufacturer |-> None, serial_number |-> None,
     chassis_manufacturer |-> None, chassis_serial_number |-> None,
     motherboard |-> None, bios |-> None]

ChassisPlaceholders == {"Not Specified", "To Be Filled By O.E.M.", "Default string"}

BaseBoardPlaceholders == {"Not Specified", "To Be Filled By O.E.M."}

\* MotherboardInfo / BiosInfo: built only when some field is present
SomeIfAnyField(record) ==
    IF \E f \in DOMAIN record : IsSome(record[f]) THEN Some(record) ELSE None

\* one pass of `for structure in smbios_data.iter()`
DmiInfoStep(info, st) ==
    IF st.kind = "SystemInformation"
    THEN [info EXCEPT
            !.product_name = DmiString(st.product_name, {"Not Specified"}),
            !.manufacturer = DmiString(st.manufacturer, {"Not Specified"}),
            !.serial_number = DmiString(st.serial_number, {"Not Specified", "Not Available"})]
    ELSE IF st.kind = "SystemChassisInformation"
    THEN [info EXCEPT
            !.chassis_manufacturer = DmiString(st.manufacturer, ChassisPlaceholders),
            !.chassis_serial_number = DmiString(st.serial_number, ChassisPlaceholders)]
    ELSE IF st.kind = "BaseBoardInformation"
    THEN LET board == SomeIfAnyField(
                        [manufacturer  |-> DmiString(st.manufacturer, BaseBoardPlaceholders),
                         product_name  |-> DmiString(st.product, BaseBoardPlaceholders),
                         version       |-> DmiString(st.version, BaseBoardPlaceholders),
                         serial_number |-> DmiString(st.serial_number, BaseBoardPlaceholders)])
         IN  IF IsSome(board) THEN [info EXCEPT !.motherboard = board] ELSE info
    ELSE IF st.kind = "Information"
    THEN LET bios == SomeIfAnyField(
                        [vendor       |-> DmiString(st.vendor, {}),
                         version      |-> DmiString(st.version, {}),
                         release_date |-> DmiString(st.release_date, {})])
         IN  IF IsSome(bios) THEN [info EXCEPT !.bios = bios] ELSE info
    ELSE info

RECURSIVE DmiInfoLoop(_, _)
DmiInfoLoop(structures, info) ==
    IF structures = <<>> THEN info
    ELSE DmiInfoLoop(Tail(structures), DmiInfoStep(info, Head(structures)))

collect_dmi_info(snapshot) ==
    IF IsNone(LoadSmbios(snapshot)) THEN NoDmiInfo
    ELSE DmiInfoLoop(Unwrap(LoadSmbios(snapshot)), NoDmiInfo)

\* /proc/sys/kernel/hostname
get_hostname(file) ==
    TrimStr(IF IsSome(file) THEN Unwrap(file) ELSE <<"u", "n", "k", "n", "o", "w", "n">>)

EmptyBmc ==
    [ip_address |-> None, mac_address |-> None, firmware_version |-> None,
     release_date |-> None]

IpmiDevices == {"/dev/ipmi0", "/dev/ipmidev/0", "/dev/ipmi/0"}

\* dev is the set of device files that exist
detect_ipmi_device(dev) ==
    IF \E device \in IpmiDevices : device \in dev THEN Some(EmptyBmc) ELSE None

\* "disable SMBIOS BMC detection"
detect_smbios_bmc == None

MgmtPatterns == {<<"b", "m", "c">>, <<"i", "p", "m", "i">>, <<"i", "l", "o">>, <<"i", "d", "r", "a", "c">>, <<"r", "a", "c">>}

\* class_net is the listing of /sys/class/net by name; `netstat -ln` is
\* consulted for the port 623
detect_network_management(class_net, runs) ==
    IF /\ IsSome(class_net)
       /\ \E i \in 1..Len(Unwrap(class_net)) :
            \E pattern \in MgmtPatterns :
                Contains(ToLowercase(Unwrap(class_net)[i]), pattern)
    THEN Some(EmptyBmc)
    ELSE IF /\ IsSome(StdoutIfSuccess(runs.netstat))
            /\ TextContains(Unwrap(StdoutIfSuccess(runs.netstat)), <<":", "6", "2", "3">>)
    THEN Some(EmptyBmc)
    ELSE None

\* the trimmed text between the first and the second ':' of the last line
\* that contains one of `labels` and a ':'
RECURSIVE LastLabelled(_, _, _)
LastLabelled(lines, labels, found) ==
    IF lines = <<>> THEN found
    ELSE LET line == Head(lines)
             value == SplitNth1(line, ":")
         IN  LastLabelled(Tail(lines), labels,
                          IF (\E l \in labels : Contains(line, l)) /\ IsSome(value)
                          THEN Some(TrimStr(Unwrap(value))) ELSE found)

\* the MAC address of a "MAC Address : aa:bb:.." line
LanMac(line) ==
    LET rest == Unwrap(SplitOnce(line, ":"))[2]
        octets == SplitOnce(rest, ":")
    IN  IF IsSome(octets) THEN TrimStr(Unwrap(octets)[1]) \o <<":">> \o Unwrap(octets)[2]
        ELSE TrimStr(Unwrap(SplitNth1(line, ":")))

\* the loop over the lines of `ipmitool lan print 1`
RECURSIVE LanLines(_, _)
LanLines(lines, found) ==
    IF lines = <<>> THEN found
    ELSE LET line == Head(lines)
             value == SplitNth1(line, ":")
             next ==
                IF Contains(line, <<"I", "P", " ", "A", "d", "d", "r", "e", "s", "s">>) /\ ~Contains(line, <<"S", "o", "u", "r", "c", "e">>)
                THEN (IF /\ IsSome(value)
                         /\ TrimStr(Unwrap(value)) # <<"0", ".", "0", ".", "0", ".", "0">>
                         /\ TrimStr(Unwrap(value)) # <<>>
                      THEN [found EXCEPT ![1] = Some(TrimStr(Unwrap(value)))]
                      ELSE found)
                ELSE IF Contains(line, <<"M", "A", "C", " ", "A", "d", "d", "r", "e", "s", "s">>)
                THEN (IF /\ IsSome(value)
                         /\ LanMac(line) # <<>>
                         /\ LanMac(line) # <<"0", "0", ":", "0", "0", ":", "0", "0", ":", "0", "0", ":", "0", "0", ":", "0", "0">>
                      THEN [found EXCEPT ![2] = Some(LanMac(line))]
                      ELSE found)
                ELSE found
         IN  LanLines(Tail(lines), next)

\* (ip_address, mac_address)
get_ipmi_network_info(runs) ==
    IF IsNone(StdoutIfSuccess(runs.ipmitool_lan_print)) THEN <<None, None>>
    ELSE LanLines(Unwrap(StdoutIfSuccess(runs.ipmitool_lan_print)), <<None, None>>)

\* `which ipmitool` is only required to start; then `ipmitool mc info`
collect_ipmi_bmc(runs) ==
    LET text == StdoutIfSuccess(runs.ipmitool_mc_info)
    IN  IF ~runs.which.spawned THEN None
        ELSE IF IsNone(text) THEN None
        ELSE Some([ip_address |-> get_ipmi_network_info(runs)[1],
                   mac_address |-> get_ipmi_network_info(runs)[2],
                   firmware_version |-> LastLabelled(Unwrap(text), {<<"F", "i", "r", "m", "w", "a", "r", "e", " ", "R", "e", "v", "i", "s", "i", "o", "n">>}, None),
                   release_date |-> LastLabelled(Unwrap(text),
                                        {<<"B", "u", "i", "l", "d", " ", "T", "i", "m", "e">>, <<"B", "u", "i", "l", "d", " ", "D", "a", "t", "e">>, <<"F", "i", "r", "m", "w", "a", "r", "e", " ", "B", "u", "i", "l", "d">>}, None)])

RedfishIndicators == {"/redfish/v1/", "/redfish/v1/Systems", "/redfish/v1/Managers"}

\* `curl -k -s --connect-timeout 2 https://localhost<indicator>`
collect_redfish_bmc(runs) ==
    IF \E indicator \in RedfishIndicators :
          /\ IsSome(StdoutIfSuccess(runs.curl[indicator]))
          /\ \/ TextContains(Unwrap(StdoutIfSuccess(runs.curl[indicator])), <<"@", "o", "d", "a", "t", "a">>)
             \/ TextContains(Unwrap(StdoutIfSuccess(runs.curl[indicator])), <<"r", "e", "d", "f", "i", "s", "h">>)
    THEN Some([EmptyBmc EXCEPT !.ip_address = Some(<<"l", "o", "c", "a", "l", "h", "o", "s", "t">>)])
    ELSE None

\* the chain with the Redfish probe tried before ipmitool
collect_bmc_from_dmi_redfish_before_ipmitool(files, runs) ==
    LET detected == FirstSome(<<detect_ipmi_device(files.dev),
                                detect_smbios_bmc,
                                detect_network_management(files.class_net, runs),
                                collect_redfish_bmc(runs),
                                collect_ipmi_bmc(runs)>>)
    IN  IF IsSome(detected) THEN Unwrap(detected) ELSE EmptyBmc

collect_bmc_from_dmi(files, runs) ==
    LET detected == FirstSome(<<detect_ipmi_device(files.dev),
                                detect_smbios_bmc,
                                detect_network_management(files.class_net, runs),
                                collect_ipmi_bmc(runs),
                                collect_redfish_bmc(runs)>>)
    IN  IF IsSome(detected) THEN Unwrap(detected) ELSE EmptyBmc

Architecture == <<"x", "8", "6", "_", "6", "4">>

\* a node record that carries a BMC only when a strategy reported a detail
collect_node_info_bmc_when_detailed(snapshot, files, runs) ==
    LET info == collect_dmi_info(snapshot)
        bmc == collect_bmc_from_dmi(files, runs)
    IN  [hostname |-> get_hostname(files.hostname),
         architecture |-> Architecture,
         product_name |-> info.product_name,
         manufacturer |-> info.manufacturer,
         serial_number |-> info.serial_number,
         chassis_manufacturer |-> info.chassis_manufacturer,
         chassis_serial_number |-> info.chassis_serial_number,
         motherboard |-> info.motherboard,
         bios |-> info.bios,
         bmc |-> IF bmc = EmptyBmc THEN None ELSE Some(bmc)]

collect_node_info(snapshot, files, runs) ==
    LET info == collect_dmi_info(snapshot)
    IN  [hostname |-> get_hostname(files.hostname),
         architecture |-> Architecture,
         product_name |-> info.product_name,
         manufacturer |-> info.manufacturer,
         serial_number |-> info.serial_number,
         chassis_manufacturer |-> info.chassis_manufacturer,
         chassis_serial_number |-> info.chassis_serial_number,
         motherboard |-> info.motherboard,
         bios |-> info.bios,
         bmc |-> Some(collect_bmc_from_dmi(files, runs))]

----------------------------------------------------------------------------
(* What the node subcommand is run against *)

SystemInformation(product_name, serial_number) ==
    [kind |-> "SystemInformation", product_name |-> product_name,
     manufacturer |-> Some("Supermicro"), serial_number |-> serial_number,
     sku_number |-> Some("Not Specified")]

SystemChassisInformation(manufacturer, serial_number) ==
    [kind |-> "SystemChassisInformation", manufacturer |-> manufacturer,
     serial_number |-> serial_number]

BaseBoardInformation(manufacturer, product) ==
    [kind |-> "BaseBoardInformation", manufacturer |-> manufacturer, product |-> product,
     version |-> Some("Not Specified"), serial_number |-> Some("")]

BiosInformation(vendor, version) ==
    [kind |-> "Information", vendor |-> vendor, version |-> version, release_date |-> None]

FirmwareStrings ==
    {None, Some(""), Some("Not Specified"), Some("Not Available"),
     Some("To Be Filled By O.E.M."), Some("Default string"), Some("X11DPi-N")}

NodeStructures ==
    {SystemInformation(a, b) : a, b \in FirmwareStrings}
    \cup {SystemChassisInformation(a, b) : a, b \in FirmwareStrings}
    \cup {BaseBoardInformation(a, b) : a, b \in FirmwareStrings}
    \cup {BiosInformation(a, b) : a, b \in FirmwareStrings}
    \cup {OtherStructure}

\* two structures of one kind and structures of two kinds
NodeTables ==
    {<<>>}
    \cup {<<a>> : a \in NodeStructures}
    \cup {<<a, BaseBoardInformation(Some("Not Specified"), None)>> : a \in NodeStructures}
    \cup {<<SystemInformation(Some("SYS-1029"), None), a>> : a \in NodeStructures}

HostnameFiles == {None, Some(<<"n", "o", "d", "e", "0", "1", "\n">>)}

NoNodeFiles == [hostname |-> None, dev |-> {}, class_net |-> None]

NodeFiles ==
    [hostname : HostnameFiles,
     dev : {{}, {"/dev/ipmi0"}, {"/dev/ipmi/0", "/dev/null"}},
     class_net : {None, Some(<<<<"l", "o">>, <<"e", "t", "h", "0">>>>), Some(<<<<"e", "t", "h", "0">>, <<"i", "D", "R", "A", "C", "0">>>>),
                  Some(<<<<"o", "r", "a", "c", "l", "e", "0">>>>)}]

NetstatTexts ==
    {<<>>, <<<<"t", "c", "p", " ", " ", " ", "0", " ", " ", "0", " ", "0", ".", "0", ".", "0", ".", "0", ":", "2", "2", " ", " ", " ", " ", " ", "0", ".", "0", ".", "0", ".", "0", ":", "*", " ", " ", "L", "I", "S", "T", "E", "N">>>>,
     <<<<"u", "d", "p", " ", " ", " ", "0", " ", " ", "0", " ", "0", ".", "0", ".", "0", ".", "0", ":", "6", "2", "3", " ", " ", " ", " ", "0", ".", "0", ".", "0", ".", "0", ":", "*">>>>}

McInfoTexts ==
    {<<>>,
     <<<<"C", "o", "u", "l", "d", " ", "n", "o", "t", " ", "o", "p", "e", "n", " ", "d", "e", "v", "i", "c", "e">>>>,
     <<<<"D", "e", "v", "i", "c", "e", " ", "I", "D", " ", " ", " ", " ", " ", " ", " ", " ", " ", " ", " ", " ", " ", " ", " ", " ", " ", ":", " ", "3", "2">>, <<"F", "i", "r", "m", "w", "a", "r", "e", " ", "R", "e", "v", "i", "s", "i", "o", "n", " ", " ", " ", " ", " ", " ", " ", " ", " ", ":", " ", "1", ".", "7", "3">>,
       <<"A", "u", "x", " ", "F", "i", "r", "m", "w", "a", "r", "e", " ", "R", "e", "v", " ", "I", "n", "f", "o", " ", " ", " ", " ", " ", ":", " ">>, <<"F", "i", "r", "m", "w", "a", "r", "e", " ", "B", "u", "i", "l", "d", " ", "T", "i", "m", "e", ":", " ", "1", "0", ":", "2", "2", ":", "0", "1">>>>}

LanPrintTexts ==
    {<<>>,
     <<<<"I", "P", " ", "A", "d", "d", "r", "e", "s", "s", " ", "S", "o", "u", "r", "c", "e", " ", " ", " ", " ", " ", " ", " ", ":", " ", "S", "t", "a", "t", "i", "c", " ", "A", "d", "d", "r", "e", "s", "s">>, <<"I", "P", " ", "A", "d", "d", "r", "e", "s", "s", " ", " ", " ", " ", " ", " ", " ", " ", " ", " ", " ", " ", " ", " ", ":", " ", "1", "0", ".", "1", ".", "2", ".", "3">>,
       <<"M", "A", "C", " ", "A", "d", "d", "r", "e", "s", "s", " ", " ", " ", " ", " ", " ", " ", " ", " ", " ", " ", " ", " ", ":", " ", "a", "c", ":", "1", "f", ":", "6", "b", ":", "0", "0", ":", "1", "1", ":", "2", "2">>>>,
     <<<<"I", "P", " ", "A", "d", "d", "r", "e", "s", "s", " ", " ", " ", " ", " ", " ", " ", " ", " ", " ", " ", " ", " ", " ", ":", " ", "0", ".", "0", ".", "0", ".", "0">>, <<"M", "A", "C", " ", "A", "d", "d", "r", "e", "s", "s", " ", " ", " ", " ", " ", " ", " ", " ", " ", " ", " ", " ", " ", ":", " ", "0", "0", ":", "0", "0", ":", "0", "0", ":", "0", "0", ":", "0", "0", ":", "0", "0">>>>}

CurlTexts == {<<>>, <<<<"{", "@", "o", "d", "a", "t", "a", ".", "i", "d", ":", " ", "/", "r", "e", "d", "f", "i", "s", "h", "/", "v", "1", "/", "}">>>>}

\* the same probe outcome for the three management paths, or only the last
\* one answering
CurlRuns ==
    {[indicator \in RedfishIndicators |-> r] : r \in ToolRuns(CurlTexts)}
    \cup {[indicator \in RedfishIndicators |->
            IF indicator = "/redfish/v1/Managers" THEN ExitZero(<<<<"r", "e", "d", "f", "i", "s", "h">>>>)
            ELSE ExitNonZero(<<>>)]}

NoNodeTools ==
    [netstat |-> Absent, which |-> Absent, ipmitool_mc_info |-> Absent,
     ipmitool_lan_print |-> Absent, curl |-> [indicator \in RedfishIndicators |-> Absent]]

NodeTools ==
    [netstat : ToolRuns(NetstatTexts),
     which : {Absent, ExitNonZero(<<>>), ExitZero(<<<<"/", "u", "s", "r", "/", "b", "i", "n", "/", "i", "p", "m", "i", "t", "o", "o", "l">>>>)},
     ipmitool_mc_info : ToolRuns(McInfoTexts),
     ipmitool_lan_print : ToolRuns(LanPrintTexts),
     curl : CurlRuns]

----------------------------------------------------------------------------
(* collect_gpus.rs *)

HexDigits == <<"0", "1", "2", "3", "4", "5", "6", "7", "8", "9", "a", "b", "c", "d", "e", "f">>

HexDigitsUpper == <<"0", "1", "2", "3", "4", "5", "6", "7", "8", "9", "A", "B", "C", "D", "E", "F">>

IsHexDigit(ch) == \E k \in 1..16 : HexDigits[k] = ch \/ HexDigitsUpper[k] = ch

HexDigitValue(ch) == (CHOOSE k \in 1..16 : HexDigits[k] = ch \/ HexDigitsUpper[k] = ch) - 1

\* 2^16: the first value a u16 cannot hold
U16Limit == 65536

\* the value of a run of hex digits, stopping at U16Limit once it is passed
RECURSIVE HexValue(_, _)
HexValue(str, acc) ==
    IF str = <<>> THEN acc
    ELSE LET next == acc * 16 + HexDigitValue(Head(str))
         IN  HexValue(Tail(str), IF next >= U16Limit THEN U16Limit ELSE next)

\* u16::from_str_radix(str, 16)
ParseHexU16(str) ==
    LET digits == IF str # <<>> /\ Head(str) = "+" THEN Tail(str) ELSE str
    IN  IF /\ digits # <<>>
           /\ \A i \in 1..Len(digits) : IsHexDigit(digits[i])
           /\ HexValue(digits, 0) < U16Limit
        THEN Some(HexValue(digits, 0)) ELSE None

\* format!("{:04x}", n)
FormatHex04(n) ==
    <<HexDigits[((n \div 4096) % 16) + 1], HexDigits[((n \div 256) % 16) + 1],
      HexDigits[((n \div 16) % 16) + 1], HexDigits[(n % 16) + 1]>>

\* the file's text trimmed, with one leading "0x" taken off, read as hex
read_hex_file(file) ==
    IF IsNone(file) THEN None
    ELSE LET content == TrimStr(Unwrap(file))
         IN  ParseHexU16(IF StartsWith(content, <<"0", "x">>)
                         THEN SubSeq(content, 3, Len(content)) ELSE content)

read_pci_class(file) ==
    IF IsNone(file) THEN None ELSE Some(TrimStr(Unwrap(file)))

is_gpu_class(class_id) ==
    StartsWith(class_id, <<"0", "x", "0", "3", "0", "0">>) \/ StartsWith(class_id, <<"0", "x", "0", "3", "8", "0">>)

\* a resolver that names listed devices only
lookup_pci_names_listed_only(pci_ids, vendor_id, device_id) ==
    IF IsNone(pci_ids) THEN None
    ELSE IF vendor_id \notin DOMAIN Unwrap(pci_ids) THEN None
    ELSE IF device_id \notin DOMAIN Unwrap(pci_ids)[vendor_id].devices THEN None
    ELSE Some(<<Unwrap(pci_ids)[vendor_id].name, Unwrap(pci_ids)[vendor_id].devices[device_id]>>)

\* pci_ids is the PCI ID database, None when Database::read() fails
lookup_pci_names(pci_ids, vendor_id, device_id) ==
    IF IsNone(pci_ids) THEN None
    ELSE IF vendor_id \notin DOMAIN Unwrap(pci_ids) THEN None
    ELSE LET vendor == Unwrap(pci_ids)[vendor_id]
         IN  Some(<<vendor.name,
                    IF device_id \in DOMAIN vendor.devices THEN vendor.devices[device_id]
                    ELSE <<"U", "n", "k", "n", "o", "w", "n", " ", "D", "e", "v", "i", "c", "e", " ", "[", "0", "x">> \o FormatHex04(device_id) \o <<"]">>>>)

EmptyGpu ==
    [vendor |-> None, model |-> None, pci_address |-> None, vram_mb |-> None,
     driver_version |-> None, uuid |-> None]

create_gpu_info(device, pci_ids) ==
    LET vendor_id == read_hex_file(device.vendor)
        device_id == read_hex_file(device.device)
        names == lookup_pci_names(pci_ids, Unwrap(vendor_id), Unwrap(device_id))
    IN  IF IsNone(device.address) \/ IsNone(vendor_id) \/ IsNone(device_id) THEN None
        ELSE IF IsNone(names) THEN None
        ELSE Some([EmptyGpu EXCEPT !.vendor = Some(Unwrap(names)[1]),
                                   !.model = Some(Unwrap(names)[2]),
                                   !.pci_address = device.address])

\* str.split(ch) as the sequence of its parts
RECURSIVE SplitAll(_, _)
SplitAll(str, ch) ==
    IF IndexOf(str, ch) = 0 THEN <<str>>
    ELSE <<SubSeq(str, 1, IndexOf(str, ch) - 1)>>
         \o SplitAll(SubSeq(str, IndexOf(str, ch) + 1, Len(str)), ch)

\* str.split_whitespace() as the sequence of its words
RECURSIVE Words(_)
Words(str) ==
    IF IsNone(FirstWord(str)) THEN <<>>
    ELSE LET t == TrimStart(str)
         IN  <<Unwrap(FirstWord(str))>>
             \o Words(SubSeq(t, Len(Unwrap(FirstWord(str))) + 1, Len(t)))

\* a match on any token, whatever its length
gpu_models_match_any_length(nvidia_name, pci_name) ==
    LET nvidia_parts == Words(ToLowercase(nvidia_name))
        pci_parts == Words(ToLowercase(pci_name))
    IN  \E i \in 1..Len(nvidia_parts), j \in 1..Len(pci_parts) :
            Contains(pci_parts[j], nvidia_parts[i])

gpu_models_match(nvidia_name, pci_name) ==
    LET nvidia_parts == Words(ToLowercase(nvidia_name))
        pci_parts == Words(ToLowercase(pci_name))
    IN  \E i \in 1..Len(nvidia_parts), j \in 1..Len(pci_parts) :
            Len(nvidia_parts[i]) > 3 /\ Contains(pci_parts[j], nvidia_parts[i])

\* the loop over the lines of nvidia-smi's CSV, left at the first row whose
\* name matches the model
RECURSIVE NvidiaLines(_, _)
NvidiaLines(lines, gpu) ==
    IF lines = <<>> THEN gpu
    ELSE LET raw == SplitAll(Head(lines), ",")
             parts == [i \in 1..Len(raw) |-> TrimStr(raw[i])]
         IN  IF /\ Len(parts) >= 4
                /\ IsSome(gpu.model)
                /\ gpu_models_match(parts[1], Unwrap(gpu.model))
             THEN [gpu EXCEPT !.vram_mb = IF IsSome(ParseU32(parts[2]))
                                          THEN ParseU32(parts[2]) ELSE @,
                              !.driver_version = Some(parts[3]),
                              !.uuid = Some(parts[4])]
             ELSE NvidiaLines(Tail(lines), gpu)

enhance_nvidia_gpu(gpu, runs) ==
    IF IsNone(StdoutIfSuccess(runs.nvidia_smi)) THEN gpu
    ELSE NvidiaLines(Unwrap(StdoutIfSuccess(runs.nvidia_smi)), gpu)

\* the first word made of digits only
RECURSIVE FirstNumber(_)
FirstNumber(words) ==
    IF words = <<>> THEN None
    ELSE IF \A i \in 1..Len(Head(words)) : IsDigit(Head(words)[i]) THEN Some(Head(words))
    ELSE FirstNumber(Tail(words))

extract_number_from_line(line) == FirstNumber(Words(line))

RECURSIVE RocmLines(_, _)
RocmLines(lines, gpu) ==
    IF lines = <<>> THEN gpu
    ELSE LET line == Head(lines)
             number == extract_number_from_line(line)
         IN  RocmLines(Tail(lines),
                IF /\ Contains(line, <<"M", "e", "m", "o", "r", "y">>) /\ Contains(line, <<"M", "B">>)
                   /\ IsSome(number)
                   /\ IsSome(ParseU32(Unwrap(number)))
                THEN [gpu EXCEPT !.vram_mb = ParseU32(Unwrap(number))]
                ELSE gpu)

enhance_amd_gpu(gpu, runs) ==
    IF IsNone(StdoutIfSuccess(runs.rocm_smi)) THEN gpu
    ELSE RocmLines(Unwrap(StdoutIfSuccess(runs.rocm_smi)), gpu)

EnhancedGpu(gpu, runs) ==
    IF IsNone(gpu.vendor) THEN gpu
    ELSE IF Contains(ToLowercase(Unwrap(gpu.vendor)), <<"n", "v", "i", "d", "i", "a">>) THEN enhance_nvidia_gpu(gpu, runs)
    ELSE IF \/ Contains(ToLowercase(Unwrap(gpu.vendor)), <<"a", "m", "d">>)
            \/ Contains(ToLowercase(Unwrap(gpu.vendor)), <<"a", "t", "i">>)
         THEN enhance_amd_gpu(gpu, runs)
    ELSE gpu

enhance_gpus_with_tools(gpus, runs) ==
    [i \in 1..Len(gpus) |-> EnhancedGpu(gpus[i], runs)]

RECURSIVE PciGpus(_, _)
PciGpus(devices, pci_ids) ==
    IF devices = <<>> THEN <<>>
    ELSE LET device == Head(devices)
             class_id == read_pci_class(device.class)
             rest == PciGpus(Tail(devices), pci_ids)
         IN  IF /\ IsSome(class_id)
                /\ is_gpu_class(Unwrap(class_id))
                /\ IsSome(create_gpu_info(device, pci_ids))
             THEN <<Unwrap(create_gpu_info(device, pci_ids))>> \o rest
             ELSE rest

\* pci_devices is the listing of /sys/bus/pci/devices, None when unreadable
collect_gpus(pci_devices, pci_ids, runs) ==
    enhance_gpus_with_tools(
        IF IsNone(pci_devices) THEN <<>> ELSE PciGpus(Unwrap(pci_devices), pci_ids),
        runs)

----------------------------------------------------------------------------
(* collect_network.rs: vendor and device names of a NIC *)

\* `hex.strip_prefix("0x").unwrap_or(hex)`
StripHexPrefix(hex) ==
    IF StartsWith(hex, <<"0", "x">>) THEN SubSeq(hex, 3, Len(hex)) ELSE hex

\* pci_ids is the PCI ID database, None when Database::read() fails
lookup_pci_ids(pci_ids, vendor_hex, device_hex) ==
    LET vendor_id == ParseHexU16(StripHexPrefix(vendor_hex))
        device_id == ParseHexU16(StripHexPrefix(device_hex))
    IN  IF IsNone(vendor_id) \/ IsNone(device_id) THEN None
        ELSE IF IsNone(pci_ids) THEN None
        ELSE IF Unwrap(vendor_id) \notin DOMAIN Unwrap(pci_ids) THEN None
        ELSE LET vendor == Unwrap(pci_ids)[Unwrap(vendor_id)]
             IN  Some(<<vendor.name,
                        IF Unwrap(device_id) \in DOMAIN vendor.devices
                        THEN vendor.devices[Unwrap(device_id)]
                        ELSE <<"U", "n", "k", "n", "o", "w", "n", " ", "D", "e", "v", "i", "c", "e", " ", "[">> \o device_hex \o <<"]">>>>)

\* (vendor_name, device_name); vendor_file and device_file are the files
\* device/vendor and device/device
read_vendor_device_info(has_device, vendor_file, device_file, pci_ids) ==
    LET vendor_id == read_to_string_trim(vendor_file)
        device_id == read_to_string_trim(device_file)
        names == lookup_pci_ids(pci_ids, Unwrap(vendor_id), Unwrap(device_id))
    IN  IF ~has_device THEN [vendor_name |-> None, device_name |-> None]
        ELSE IF IsNone(vendor_id) \/ IsNone(device_id) THEN [vendor_name |-> None, device_name |-> None]
        ELSE IF IsNone(names) THEN [vendor_name |-> None, device_name |-> None]
        ELSE [vendor_name |-> Some(Unwrap(names)[1]), device_name |-> Some(Unwrap(names)[2])]

----------------------------------------------------------------------------
(* What the GPU collector is run against *)

PciDevice(address, class, vendor, device) ==
    [address |-> address, class |-> class, vendor |-> vendor, device |-> device]

\* 0x10de, 0x1002, 0x8086 and two device ids under them
PciIdDatabase ==
    (4318 :> [name |-> <<"N", "V", "I", "D", "I", "A", " ", "C", "o", "r", "p", "o", "r", "a", "t", "i", "o", "n">>,
              devices |-> (7606 :> <<"G", "V", "1", "0", "0", "G", "L", " ", "[", "T", "e", "s", "l", "a", " ", "V", "1", "0", "0", " ", "P", "C", "I", "e", " ", "3", "2", "G", "B", "]">>)])
    @@ (4098 :> [name |-> <<"A", "d", "v", "a", "n", "c", "e", "d", " ", "M", "i", "c", "r", "o", " ", "D", "e", "v", "i", "c", "e", "s", ",", " ", "I", "n", "c", ".", " ", "[", "A", "M", "D", "/", "A", "T", "I", "]">>,
                 devices |-> (29583 :> <<"V", "e", "g", "a", " ", "2", "0", " ", "[", "R", "a", "d", "e", "o", "n", " ", "P", "r", "o", " ", "V", "I", "I", "]">>)])
    @@ (32902 :> [name |-> <<"I", "n", "t", "e", "l", " ", "C", "o", "r", "p", "o", "r", "a", "t", "i", "o", "n">>, devices |-> <<>>])

PciIdDatabases == {None, Some(PciIdDatabase)}

PciClassFiles ==
    {None, Some(<<"0", "x", "0", "3", "0", "0", "0", "0", "\n">>), Some(<<"0", "x", "0", "3", "0", "2", "0", "0", "\n">>), Some(<<"0", "x", "0", "3", "8", "0", "0", "0", "\n">>), Some(<<"0", "x", "0", "2", "0", "0", "0", "0", "\n">>)}

PciVendorFiles == {None, Some(<<"0", "x", "1", "0", "d", "e", "\n">>), Some(<<"0", "x", "1", "0", "0", "2", "\n">>), Some(<<"0", "x", "8", "0", "8", "6", "\n">>), Some(<<"0", "x", "1", "a", "0", "3", "\n">>)}

PciDeviceFiles == {None, Some(<<"0", "x", "1", "d", "b", "6", "\n">>), Some(<<"0", "x", "7", "3", "8", "F", "\n">>), Some(<<"0", "x", "2", "0", "0", "0", "\n">>)}

NvidiaSmiTexts ==
    {<<>>,
     <<<<"N", "V", "I", "D", "I", "A", "-", "S", "M", "I", " ", "h", "a", "s", " ", "f", "a", "i", "l", "e", "d", " ", "b", "e", "c", "a", "u", "s", "e", " ", "i", "t", " ", "c", "o", "u", "l", "d", "n", "'", "t", " ", "c", "o", "m", "m", "u", "n", "i", "c", "a", "t", "e", " ", "w", "i", "t", "h", " ", "t", "h", "e", " ", "N", "V", "I", "D", "I", "A", " ", "d", "r", "i", "v", "e", "r", ".">>>>,
     <<<<"N", "V", "I", "D", "I", "A", " ", "A", "1", "0", "0", ",", " ", "4", "0", "9", "6", "0", ",", " ", "5", "3", "5", ".", "1", "0", "4", ",", " ", "G", "P", "U", "-", "0", "a">>, <<"T", "e", "s", "l", "a", " ", "V", "1", "0", "0", "-", "P", "C", "I", "E", "-", "3", "2", "G", "B", ",", " ", "3", "2", "5", "1", "0", ",", " ", "5", "3", "5", ".", "1", "0", "4", ",", " ", "G", "P", "U", "-", "5", "b">>>>}

RocmSmiTexts ==
    {<<>>, <<<<"G", "P", "U", "[", "0", "]", " ", ":", " ", "V", "R", "A", "M", " ", "T", "o", "t", "a", "l", " ", "M", "e", "m", "o", "r", "y", " ", "(", "M", "B", ")", ":", " ", "1", "6", "3", "6", "8">>, <<"G", "P", "U", "[", "0", "]", " ", ":", " ", "C", "a", "r", "d", " ", "s", "e", "r", "i", "e", "s", ":", " ", "V", "e", "g", "a", " ", "2", "0">>>>}

GpuTools ==
    [nvidia_smi : ToolRuns(NvidiaSmiTexts), rocm_smi : ToolRuns(RocmSmiTexts)]

NoGpuTools == [nvidia_smi |-> Absent, rocm_smi |-> Absent]

PciListings ==
    {None, Some(<<>>)}
    \cup {Some(<<PciDevice(Some(<<"0", "0", "0", "0", ":", "3", "b", ":", "0", "0", ".", "0">>), c, v, d)>>) :
            c \in PciClassFiles, v \in PciVendorFiles, d \in PciDeviceFiles}
    \cup {Some(<<PciDevice(None, Some(<<"0", "x", "0", "3", "0", "0", "0", "0", "\n">>), Some(<<"0", "x", "1", "0", "d", "e", "\n">>), Some(<<"0", "x", "1", "d", "b", "6", "\n">>)),
                 PciDevice(Some(<<"0", "0", "0", "0", ":", "0", "0", ":", "1", "f", ".", "6">>), Some(<<"0", "x", "0", "2", "0", "0", "0", "0", "\n">>), Some(<<"0", "x", "8", "0", "8", "6", "\n">>), None)>>),
          Some(<<PciDevice(Some(<<"0", "0", "0", "0", ":", "3", "b", ":", "0", "0", ".", "0">>), Some(<<"0", "x", "0", "3", "0", "0", "0", "0", "\n">>), Some(<<"0", "x", "1", "0", "d", "e", "\n">>), Some(<<"0", "x", "1", "d", "b", "6", "\n">>)),
                 PciDevice(Some(<<"0", "0", "0", "0", ":", "a", "f", ":", "0", "0", ".", "0">>), Some(<<"0", "x", "0", "3", "0", "0", "0", "0", "\n">>), Some(<<"0", "x", "1", "0", "d", "e", "\n">>), Some(<<"0", "x", "1", "d", "b", "6", "\n">>))>>)}

\* the vendor and device files of one PCI function
VendorIdFiles == PciVendorFiles \cup {Some(<<"1", "0", "d", "e", "\n">>), Some(<<"0", "x", "1", "0", "D", "E">>)}

DeviceIdFiles ==
    PciDeviceFiles \cup {Some(<<"0", "x", "0", "0", "0", "1", "\n">>), Some(<<"0", "x", "f", "f", "f", "f", "\n">>), Some(<<"1", "5", "7", "2", "\n">>), Some(<<"0", "x", "2", "0", "0", "0", "0", "\n">>),
                         Some(<<"z", "z", "\n">>), Some(<<"\n">>)}

----------------------------------------------------------------------------
(* collector.rs *)

AGENT_VERSION == <<"1", ".", "0", ".", "0">>

\* the Inventory struct built from the seven locals
Inventory(collected) ==
    [agent_version |-> AGENT_VERSION,
     node |-> collected.node,
     cpu |-> collected.cpu,
     memory |-> collected.memory,
     disks |-> collected.disks,
     network |-> collected.network,
     gpus |-> collected.gpus,
     power_supplies |-> collected.power_supplies]

\* `let <category> = hardware::collect_...();`
Bound(collected, category, value) ==
    [c \in DOMAIN collected \cup {category} |->
        IF c = category THEN value ELSE collected[c]]

----------------------------------------------------------------------------
(* What the inventory subcommand is run against: for every collector, each *)
(* way its sources can be unavailable, and a machine where they answer.    *)

\* a binary that is not installed or exits non-zero
Unavailable == {Absent, ExitNonZero(<<>>)}

DmiUnavailable == DmiSnapshot(<<"err", "err">>, <<>>)

MachineTable ==
    WithDesignations(WithLocators(
        <<BiosInformation(Some("American Megatrends"), Some("3.4")),
          SystemInformation(Some("SYS-1029"), Some("S2101")),
          Processor(Some(4), Some(8), Some(2400), Some(3000), Some("Xeon A"), Some(65535)),
          Processor(Some(4), Some(8), Some(2600), Some(3000), Some("Xeon B"), Some(65535)),
          MemDev(Some(8192), Some(0), Some(2400), Some(3200), Some("Samsung"))>>))

DmiCases == {DmiUnavailable, DmiSnapshot(<<"ok", "ok">>, MachineTable)}

NodeCases ==
    { [files |-> [hostname |-> h, dev |-> {}, class_net |-> None],
       runs |-> [netstat |-> n, which |-> w, ipmitool_mc_info |-> m,
                 ipmitool_lan_print |-> l, curl |-> [i \in RedfishIndicators |-> c]]] :
        h \in HostnameFiles, n \in Unavailable, w \in Unavailable, m \in Unavailable,
        l \in Unavailable, c \in Unavailable }
    \cup { [files |-> [hostname |-> Some(<<"n", "o", "d", "e", "0", "1", "\n">>), dev |-> {}, class_net |-> Some(<<<<"e", "t", "h", "0">>>>)],
            runs |-> [NoNodeTools EXCEPT
                        !.which = ExitZero(<<<<"/", "u", "s", "r", "/", "b", "i", "n", "/", "i", "p", "m", "i", "t", "o", "o", "l">>>>),
                        !.ipmitool_mc_info = ExitZero(<<<<"F", "i", "r", "m", "w", "a", "r", "e", " ", "R", "e", "v", "i", "s", "i", "o", "n", " ", " ", " ", " ", " ", " ", " ", " ", " ", ":", " ", "1", ".", "7", "3">>>>)]] }

MachineDisk == Disk(<<"s", "d", "a">>, TRUE, None, Some(<<"s", "c", "s", "i">>), Some(Sectors), Some(<<"0", "\n">>))

StorageCases ==
    {[block |-> None, runs |-> <<>>]}
    \cup { [block |-> Some(<<MachineDisk>>),
            runs |-> [n \in {<<"s", "d", "a">>} |-> DiskRuns(i, h, u, sh, c)]] :
            i \in Unavailable, h \in Unavailable, u \in Unavailable, sh \in Unavailable,
            c \in Unavailable }
    \cup { [block |-> Some(<<MachineDisk>>),
            runs |-> [n \in {<<"s", "d", "a">>} |->
                        [NoDiskTools EXCEPT !.smartctl_h =
                            ExitZero(<<<<"S", "M", "A", "R", "T", " ", "o", "v", "e", "r", "a", "l", "l", "-", "h", "e", "a", "l", "t", "h", " ", "s", "e", "l", "f", "-", "a", "s", "s", "e", "s", "s", "m", "e", "n", "t", " ", "t", "e", "s", "t", " ", "r", "e", "s", "u", "l", "t", ":", " ", "P", "A", "S", "S", "E", "D">>>>)]]] }

NetworkCases ==
    { [class_net |-> None, ip |-> ip] : ip \in {"absent", "nonzero"} }
    \cup { [class_net |-> Some(<<NetEntry(<<"e", "t", "h", "0">>, TRUE, None, <<GlobalV4>>)>>), ip |-> ip] :
            ip \in {"absent", "ok"} }

GpuCases ==
    { [pci_devices |-> None, pci_ids |-> ids, runs |-> [nvidia_smi |-> n, rocm_smi |-> r]] :
        ids \in PciIdDatabases, n \in Unavailable, r \in Unavailable }
    \cup { [pci_devices |-> Some(<<PciDevice(Some(<<"0", "0", "0", "0", ":", "3", "b", ":", "0", "0", ".", "0">>), Some(<<"0", "x", "0", "3", "0", "0", "0", "0", "\n">>),
                                             Some(<<"0", "x", "1", "0", "d", "e", "\n">>), Some(<<"0", "x", "1", "d", "b", "6", "\n">>))>>),
            pci_ids |-> Some(PciIdDatabase),
            runs |-> [nvidia_smi |-> n, rocm_smi |-> Absent]] :
            n \in {Absent, ExitZero(<<<<"T", "e", "s", "l", "a", " ", "V", "1", "0", "0", "-", "P", "C", "I", "E", "-", "3", "2", "G", "B", ",", " ", "3", "2", "5", "1", "0", ",", " ", "5", "3", "5", ".", "1", "0", "4", ",", " ", "G", "P", "U", "-", "5", "b">>>>)} }

PowerCases ==
    { [class_power_supply |-> None,
       runs |-> [dmidecode |-> d, ipmitool_sdr_list |-> i, ipmitool_sdr_get |-> Absent,
                 lshw |-> l, apcaccess |-> a, upsc |-> u]] :
        d \in Unavailable, i \in Unavailable, l \in Unavailable, a \in Unavailable,
        u \in Unavailable }
    \cup { [class_power_supply |-> Some(<<PowerSupplyEntry(Some(<<"u", "c", "s", "i", "-", "s", "o", "u", "r", "c", "e", "-", "p", "s", "y">>), Some(<<"O", "n", "l", "i", "n", "e", "\n">>))>>),
            runs |-> [dmidecode |-> Absent, ipmitool_sdr_list |-> Absent,
                      ipmitool_sdr_get |-> Absent, lshw |-> Absent, apcaccess |-> a,
                      upsc |-> Absent]] :
            a \in {Absent, ExitZero(<<<<"M", "O", "D", "E", "L", " ", " ", " ", " ", ":", " ", "S", "m", "a", "r", "t", "-", "U", "P", "S", " ", "1", "5", "0", "0">>>>)} }

----------------------------------------------------------------------------
(* The program *)

Init ==
    /\ pc = "main"
    /\ dmi = DmiUnread
    /\ sysfs = <<>>
    /\ tools = <<>>
    /\ locals = <<>>
    /\ output = None

\* HardwareCommands::Memory
HardwareMemory ==
    /\ pc = "main"
    /\ \E n \in 0..MaxMemoryStructures, outcome \in DmiLoadOutcomes :
          \E t \in [1..n -> MemoryDevices \cup {OtherStructure}] :
             LET snapshot == DmiSnapshot(outcome, WithLocators(t))
             IN  /\ dmi' = snapshot
                 /\ output' = Some(collect_memory_info(snapshot))
    /\ pc' = "memory_done"
    /\ UNCHANGED <<sysfs, tools, locals>>

SpecMemory == Init /\ [][HardwareMemory]_vars

\* HardwareCommands::Cpu
HardwareCpu ==
    /\ pc = "main"
    /\ \E n \in 0..MaxCpuStructures, outcome \in DmiLoadOutcomes :
          \E t \in [1..n -> Processors \cup Caches \cup {OtherStructure}] :
             LET snapshot == DmiSnapshot(outcome, WithDesignations(t))
             IN  \E order \in IterationOrders(DOMAIN collect_with_smbios(snapshot)) :
                    /\ dmi' = snapshot
                    /\ output' = Some(collect_cpu_info(snapshot, order))
    /\ pc' = "cpu_done"
    /\ UNCHANGED <<sysfs, tools, locals>>

SpecCpu == Init /\ [][HardwareCpu]_vars

\* HardwareCommands::Network
HardwareNetwork ==
    /\ pc = "main"
    /\ \E ip \in IpOutcomes, n \in 0..MaxInterfaces, readable \in BOOLEAN :
          \E listing \in ClassNetCases(n) :
             LET class_net == IF readable THEN Some(listing) ELSE None
             IN  /\ readable \/ n = 0
                 /\ sysfs' = [class_net |-> class_net]
                 /\ tools' = [ip |-> ip]
                 /\ output' = Some(collect_network_info(class_net, ip, RouteJson))
    /\ pc' = "network_done"
    /\ UNCHANGED <<dmi, locals>>

SpecNetwork == Init /\ [][HardwareNetwork]_vars

\* HardwareCommands::Power
HardwarePower ==
    /\ pc = "main"
    /\ \E class_power_supply \in PowerSupplyListings, runs \in PowerTools :
          /\ sysfs' = [class_power_supply |-> class_power_supply]
          /\ tools' = runs
          /\ output' = Some(collect_power_supplies(class_power_supply, runs))
    /\ pc' = "power_done"
    /\ UNCHANGED <<dmi, locals>>

SpecPower == Init /\ [][HardwarePower]_vars

\* HardwareCommands::Storage
HardwareStorage ==
    /\ pc = "main"
    /\ \E case \in BlockCases, class_nvme \in NvmeClasses :
          /\ sysfs' = [block |-> case.block, class_nvme |-> class_nvme]
          /\ tools' = case.runs
          /\ output' = Some(collect_disks(case.block, class_nvme, case.runs))
    /\ pc' = "storage_done"
    /\ UNCHANGED <<dmi, locals>>

SpecStorage == Init /\ [][HardwareStorage]_vars

\* HardwareCommands::Node
HardwareNode ==
    /\ pc = "main"
    /\ \/ \E outcome \in DmiLoadOutcomes, table \in NodeTables :
             /\ dmi' = DmiSnapshot(outcome, table)
             /\ sysfs' = NoNodeFiles
             /\ tools' = NoNodeTools
       \/ \E files \in NodeFiles, runs \in NodeTools :
             /\ dmi' = DmiSnapshot(<<"err", "err">>, <<>>)
             /\ sysfs' = files
             /\ tools' = runs
    /\ output' = Some(collect_node_info(dmi', sysfs', tools'))
    /\ pc' = "node_done"
    /\ UNCHANGED locals

SpecNode == Init /\ [][HardwareNode]_vars

\* HardwareCommands::Inventory, collect_full_inventory step by step
CollectNode ==
    /\ pc = "main"
    /\ \E snapshot \in DmiCases, case \in NodeCases :
          /\ dmi' = snapshot
          /\ sysfs' = case.files
          /\ tools' = case.runs
          /\ locals' = Bound(locals, "node", collect_node_info(snapshot, case.files, case.runs))
    /\ pc' = "inventory_cpu"
    /\ UNCHANGED output

CollectCpu ==
    /\ pc = "inventory_cpu"
    /\ \E snapshot \in DmiCases :
          \E order \in IterationOrders(DOMAIN collect_with_smbios(snapshot)) :
             /\ dmi' = snapshot
             /\ locals' = Bound(locals, "cpu", collect_cpu_info(snapshot, order))
    /\ sysfs' = <<>>
    /\ tools' = <<>>
    /\ pc' = "inventory_memory"
    /\ UNCHANGED output

CollectMemory ==
    /\ pc = "inventory_memory"
    /\ \E snapshot \in DmiCases :
          /\ dmi' = snapshot
          /\ locals' = Bound(locals, "memory", collect_memory_info(snapshot))
    /\ sysfs' = <<>>
    /\ tools' = <<>>
    /\ pc' = "inventory_disks"
    /\ UNCHANGED output

CollectDisks ==
    /\ pc = "inventory_disks"
    /\ \E case \in StorageCases, class_nvme \in NvmeClasses :
          /\ sysfs' = [block |-> case.block, class_nvme |-> class_nvme]
          /\ tools' = case.runs
          /\ locals' = Bound(locals, "disks", collect_disks(case.block, class_nvme, case.runs))
    /\ dmi' = DmiUnread
    /\ pc' = "inventory_network"
    /\ UNCHANGED output

CollectNetwork ==
    /\ pc = "inventory_network"
    /\ \E case \in NetworkCases :
          /\ sysfs' = [class_net |-> case.class_net]
          /\ tools' = [ip |-> case.ip]
          /\ locals' = Bound(locals, "network",
                             collect_network_info(case.class_net, case.ip, RouteJson))
    /\ dmi' = DmiUnread
    /\ pc' = "inventory_gpus"
    /\ UNCHANGED output

CollectGpus ==
    /\ pc = "inventory_gpus"
    /\ \E case \in GpuCases :
          /\ sysfs' = [pci_devices |-> case.pci_devices, pci_ids |-> case.pci_ids]
          /\ tools' = case.runs
          /\ locals' = Bound(locals, "gpus",
                             collect_gpus(case.pci_devices, case.pci_ids, case.runs))
    /\ dmi' = DmiUnread
    /\ pc' = "inventory_power_supplies"
    /\ UNCHANGED output

CollectPowerSupplies ==
    /\ pc = "inventory_power_supplies"
    /\ \E case \in PowerCases :
          /\ sysfs' = [class_power_supply |-> case.class_power_supply]
          /\ tools' = case.runs
          /\ locals' = Bound(locals, "power_supplies",
                             collect_power_supplies(case.class_power_supply, case.runs))
    /\ dmi' = DmiUnread
    /\ pc' = "inventory_collected"
    /\ UNCHANGED output

\* `output_data(&inventory, format)?`
OutputInventory ==
    /\ pc = "inventory_collected"
    /\ output' = Some(Inventory(locals))
    /\ pc' = "inventory_done"
    /\ UNCHANGED <<dmi, sysfs, tools, locals>>

InventoryNext ==
    \/ CollectNode
    \/ CollectCpu
    \/ CollectMemory
    \/ CollectDisks
    \/ CollectNetwork
    \/ CollectGpus
    \/ CollectPowerSupplies
    \/ OutputInventory

SpecInventory == Init /\ [][InventoryNext]_vars

\* collect_gpus run on a listing of /sys/bus/pci/devices
GpuCollection ==
    /\ pc = "main"
    /\ \E pci_devices \in PciListings, pci_ids \in PciIdDatabases, runs \in GpuTools :
          /\ sysfs' = [pci_devices |-> pci_devices, pci_ids |-> pci_ids]
          /\ tools' = runs
          /\ output' = Some(collect_gpus(pci_devices, pci_ids, runs))
    /\ pc' = "gpus_done"
    /\ UNCHANGED <<dmi, locals>>

\* one PCI function named by the resolver of the network collector and by
\* the resolver of the GPU collector
PciNameResolution ==
    /\ pc = "main"
    /\ \E vendor \in VendorIdFiles, device \in DeviceIdFiles, pci_ids \in PciIdDatabases :
          /\ sysfs' = [vendor |-> vendor, device |-> device, pci_ids |-> pci_ids]
          /\ output' = Some([network |-> read_vendor_device_info(TRUE, vendor, device, pci_ids),
                             gpu |-> create_gpu_info(
                                        PciDevice(Some(<<"0", "0", "0", "0", ":", "3", "b", ":", "0", "0", ".", "0">>), Some(<<"0", "x", "0", "3", "0", "0", "0", "0", "\n">>), vendor, device),
                                        pci_ids)])
    /\ pc' = "pci_names_done"
    /\ UNCHANGED <<dmi, tools, locals>>

\* the names nvidia-smi prints and the names the PCI ID database holds
ToolGpuNames ==
    {<<"T", "e", "s", "l", "a", " ", "V", "1", "0", "0", "-", "P", "C", "I", "E", "-", "3", "2", "G", "B">>, <<"N", "V", "I", "D", "I", "A", " ", "A", "1", "0", "0">>, <<"R", "T", "X", " ", "3", "0", "9", "0">>, <<"T", "4">>, <<"T", "E", "S", "L", "A", " ", " ", "T", "4", " ">>, <<"Q", "u", "a", "d", "r", "o">>, <<>>}

PciGpuNames ==
    {<<"G", "V", "1", "0", "0", "G", "L", " ", "[", "T", "e", "s", "l", "a", " ", "V", "1", "0", "0", " ", "P", "C", "I", "e", " ", "3", "2", "G", "B", "]">>, <<"T", "U", "1", "0", "4", "G", "L", " ", "[", "T", "e", "s", "l", "a", " ", "T", "4", "]">>, <<"G", "A", "1", "0", "2", " ", "[", "G", "e", "F", "o", "r", "c", "e", " ", "R", "T", "X", " ", "3", "0", "9", "0", "]">>,
     <<"G", "A", "1", "0", "0", " ", "[", "A", "1", "0", "0", " ", "P", "C", "I", "e", " ", "4", "0", "G", "B", "]">>, <<"G", "P", "1", "0", "2", "G", "L", " ", "[", "Q", "u", "a", "d", "r", "o", " ", "P", "6", "0", "0", "0", "]">>, <<>>}

\* gpu_models_match on one row name and one model name
GpuNameMatching ==
    /\ pc = "main"
    /\ \E nvidia_name \in ToolGpuNames, pci_name \in PciGpuNames :
          /\ tools' = [nvidia_name |-> nvidia_name]
          /\ sysfs' = [pci_name |-> pci_name]
          /\ output' = Some(gpu_models_match(nvidia_name, pci_name))
    /\ pc' = "names_matched"
    /\ UNCHANGED <<dmi, locals>>

PciNext ==
    \/ GpuCollection
    \/ PciNameResolution
    \/ GpuNameMatching

SpecPci == Init /\ [][PciNext]_vars

\* the subcommands whose collectors probe external binaries
ProbesNext ==
    \/ HardwarePower
    \/ HardwareStorage
    \/ HardwareNode

SpecProbes == Init /\ [][ProbesNext]_vars

----------------------------------------------------------------------------
(* Aggregate inventory: properties *)

InventoryDone == pc = "inventory_done"

Categories == {"node", "cpu", "memory", "disks", "network", "gpus", "power_supplies"}

RunUnavailable(run) == ~run.spawned \/ ~run.success

AllUnavailable(runs) == \A tool \in DOMAIN runs : RunUnavailable(runs[tool])

\* NodeInfo with every optional field absent and a BMC record without data
NodeWithoutData(node) ==
    /\ \A f \in {"product_name", "manufacturer", "serial_number", "chassis_manufacturer",
                 "chassis_serial_number", "motherboard", "bios"} : node[f] = None
    /\ node.bmc = Some(EmptyBmc)

EmptyCpuInfo == [sockets |-> None, cores |-> None, threads |-> None, cpus |-> <<>>]

EmptyMemoryInfo == [total_bytes |-> None, dimms |-> <<>>]

EmptyNetworkInfo == [interfaces |-> <<>>, routes |-> <<>>]

\* what the collector that has just run leaves when its sources were
\* unavailable
GapsAreAbsentFields ==
    /\ (/\ pc = "inventory_cpu"
        /\ IsNone(LoadSmbios(dmi)) /\ IsNone(sysfs.class_net) /\ sysfs.dev = {}
        /\ AllUnavailable([t \in DOMAIN tools \ {"curl"} |-> tools[t]])
        /\ AllUnavailable(tools.curl))
       => NodeWithoutData(locals.node)
    /\ pc = "inventory_memory" => (IsNone(LoadSmbios(dmi)) => locals.cpu = EmptyCpuInfo)
    /\ pc = "inventory_disks" => (IsNone(LoadSmbios(dmi)) => locals.memory = EmptyMemoryInfo)
    /\ pc = "inventory_network" =>
          /\ IsNone(sysfs.block) => locals.disks = <<>>
          /\ \A k \in 1..Len(locals.disks) :
                AllUnavailable(tools[locals.disks[k].name]) =>
                    /\ locals.disks[k].smart = None
                    /\ locals.disks[k].firmware_version = None
    /\ pc = "inventory_gpus" =>
          /\ IsNone(sysfs.class_net) => locals.network.interfaces = <<>>
          /\ tools.ip \in {"absent", "nonzero"} =>
                /\ locals.network.routes = <<>>
                /\ \A k \in 1..Len(locals.network.interfaces) :
                      locals.network.interfaces[k].addresses = <<>>
    /\ pc = "inventory_power_supplies" =>
          /\ IsNone(sysfs.pci_devices) => locals.gpus = <<>>
          /\ \A k \in 1..Len(locals.gpus) :
                AllUnavailable(tools) =>
                    /\ locals.gpus[k].vram_mb = None
                    /\ locals.gpus[k].driver_version = None
                    /\ locals.gpus[k].uuid = None
    /\ (pc = "inventory_collected" /\ IsNone(sysfs.class_power_supply) /\ AllUnavailable(tools))
       => locals.power_supplies = <<>>

\* C1: collect_full_inventory never fails: whatever sources are unavailable
\* the inventory command prints an Inventory with agent_version and all seven
\* categories, and a collector whose sources were unavailable contributes
\* only absent fields and empty sequences.
C1_InventoryAlwaysComplete ==
    /\ GapsAreAbsentFields
    /\ pc \in {"inventory_collected", "inventory_done"} => DOMAIN locals = Categories
    /\ InventoryDone =>
          /\ IsSome(output)
          /\ DOMAIN Unwrap(output) = Categories \cup {"agent_version"}
          /\ Unwrap(output).agent_version = AGENT_VERSION
          /\ \A c \in Categories : Unwrap(output)[c] = locals[c]

\* the inventory of a machine where no source answered: the firmware table
\* and the sysfs directories unreadable, binaries absent or failing
C1_Witness ==
    /\ InventoryDone
    /\ NodeWithoutData(Unwrap(output).node)
    /\ Unwrap(output).cpu = EmptyCpuInfo
    /\ Unwrap(output).memory = EmptyMemoryInfo
    /\ Unwrap(output).disks = <<>>
    /\ Unwrap(output).network = EmptyNetworkInfo
    /\ Unwrap(output).gpus = <<>>
    /\ Unwrap(output).power_supplies = <<>>
    /\ IsNone(sysfs.class_power_supply)
    /\ tools.apcaccess = ExitNonZero(<<>>)
    /\ tools.dmidecode = Absent

----------------------------------------------------------------------------
(* External probes: properties *)

\* outputs no parser of the collectors finds anything in
UnparseableTexts ==
    {<<<<"a", "p", "c", "a", "c", "c", "e", "s", "s">>>>, <<<<"C", "o", "u", "l", "d", " ", "n", "o", "t", " ", "o", "p", "e", "n", " ", "d", "e", "v", "i", "c", "e">>>>, <<<<"S", "M", "A", "R", "T", " ", "s", "u", "p", "p", "o", "r", "t", " ", "i", "s", ":", " ", "U", "n", "a", "v", "a", "i", "l", "a", "b", "l", "e">>>>,
     <<<<"W", "A", "R", "N", "I", "N", "G", ":", " ", "y", "o", "u", " ", "s", "h", "o", "u", "l", "d", " ", "r", "u", "n", " ", "t", "h", "i", "s", " ", "p", "r", "o", "g", "r", "a", "m", " ", "a", "s", " ", "s", "u", "p", "e", "r", "-", "u", "s", "e", "r", ".">>>>}

\* binary absent, non-zero exit status, or exit 0 with empty or unparseable
\* output
NoData(run) ==
    \/ ~run.spawned
    \/ ~run.success
    \/ run.stdout = <<>>
    \/ run.stdout \in UnparseableTexts

\* the binaries of the node collector named by the probes' contract
NodeProbes == {"netstat", "ipmitool_mc_info", "ipmitool_lan_print"}

\* C2: a probe that gave no data (binary absent, non-zero exit, or exit 0
\* with empty or unparseable output) leaves the collector's result as it is
\* when the binary is absent.
C2_NoDataOutcomesTreatedAlike ==
    /\ pc = "power_done" =>
          \A tool \in DOMAIN tools :
              NoData(tools[tool]) =>
                  output = Some(collect_power_supplies(sysfs.class_power_supply,
                                                       [tools EXCEPT ![tool] = Absent]))
    /\ pc = "storage_done" =>
          \A name \in DOMAIN tools :
              \A tool \in DOMAIN tools[name] :
                  NoData(tools[name][tool]) =>
                      output = Some(collect_disks(sysfs.block, sysfs.class_nvme,
                                                  [tools EXCEPT ![name][tool] = Absent]))
    /\ pc = "node_done" =>
          /\ \A tool \in NodeProbes :
                NoData(tools[tool]) =>
                    output = Some(collect_node_info(dmi, sysfs, [tools EXCEPT ![tool] = Absent]))
          /\ \A indicator \in RedfishIndicators :
                NoData(tools.curl[indicator]) =>
                    output = Some(collect_node_info(dmi, sysfs,
                                        [tools EXCEPT !.curl[indicator] = Absent]))

----------------------------------------------------------------------------
(* Memory collector: properties *)

MemoryDone == pc = "memory_done"

MemoryOut == Unwrap(output)

\* the memory-device records of the table that was read, by position
MemoryRecords == {i \in 1..Len(dmi.structures) : dmi.structures[i].kind = "MemoryDevice"}

\* the DimmInfo entries emitted for the record at position i
DimmsFor(i) ==
    {k \in 1..Len(MemoryOut.dimms) : MemoryOut.dimms[k].slot = Some(Locator(i))}

\* the value of a byte count that fits the checker's integers
SmallBytes(x) == x.mib * MiB + x.b

\* a left-to-right sum of the size_bytes of dimms[1..k]
RECURSIVE SumUpTo(_, _)
SumUpTo(dimms, k) ==
    IF k = 0 THEN U64Zero
    ELSE LET before == SumUpTo(dimms, k - 1)
         IN  IF IsSome(dimms[k].size_bytes)
             THEN U64Add(before, Unwrap(dimms[k].size_bytes))
             ELSE before

\* C3: total_bytes is the sum of size_bytes over exactly the emitted DimmInfo
\* entries, and is absent only when that sum is zero.
C3_TotalIsSumOfEmittedDimms ==
    MemoryDone =>
        LET sum == SumUpTo(MemoryOut.dimms, Len(MemoryOut.dimms))
        IN  /\ U64Positive(sum) => MemoryOut.total_bytes = Some(sum)
            /\ ~U64Positive(sum) => MemoryOut.total_bytes = None

\* two DIMMs of different sizes were emitted from a table read through the
\* fallback path, and a total was reported
C3_Witness ==
    /\ MemoryDone
    /\ dmi.try_load = "err"
    /\ Len(MemoryOut.dimms) = 2
    /\ MemoryOut.dimms[1].size_bytes # MemoryOut.dimms[2].size_bytes
    /\ IsSome(MemoryOut.total_bytes)

RawSize(i) == Unwrap(dmi.structures[i].size)

IsKilobytesRecord(i) ==
    /\ IsSome(dmi.structures[i].size)
    /\ RawSize(i) > 32768
    /\ RawSize(i) < 65535

IsMegabytesRecord(i) ==
    /\ IsSome(dmi.structures[i].size)
    /\ RawSize(i) > 0
    /\ RawSize(i) < SeeExtendedSizeRaw

IsSentinelRecord(i) ==
    /\ IsSome(dmi.structures[i].size)
    /\ RawSize(i) = SeeExtendedSizeRaw

IsExtendedRecord(i) ==
    /\ IsSentinelRecord(i)
    /\ IsSome(dmi.structures[i].extended_size)
    /\ Unwrap(dmi.structures[i].extended_size) > 0

\* C4: every populated record is emitted with the exact byte count of its
\* encoding: kb * 1024, mb * 1024 * 1024, or ext_mb * 1024 * 1024 behind the
\* 0x7FFF sentinel.
C4_SizeBytesExact ==
    MemoryDone =>
        \A i \in MemoryRecords :
            /\ IsKilobytesRecord(i) =>
                  /\ DimmsFor(i) # {}
                  /\ \A k \in DimmsFor(i) :
                        /\ IsSome(MemoryOut.dimms[k].size_bytes)
                        /\ SmallBytes(Unwrap(MemoryOut.dimms[k].size_bytes))
                              = (RawSize(i) - 32768) * 1024
            /\ IsMegabytesRecord(i) =>
                  /\ DimmsFor(i) # {}
                  /\ \A k \in DimmsFor(i) :
                        MemoryOut.dimms[k].size_bytes = Some([mib |-> RawSize(i), b |-> 0])
            /\ IsExtendedRecord(i) =>
                  /\ DimmsFor(i) # {}
                  /\ \A k \in DimmsFor(i) :
                        MemoryOut.dimms[k].size_bytes
                          = Some([mib |-> Unwrap(dmi.structures[i].extended_size), b |-> 0])

\* a table holding a megabytes-field module of 32766 MiB (more than 2^32
\* bytes) next to a module behind the sentinel, both emitted
C4_Witness ==
    /\ MemoryDone
    /\ Len(MemoryOut.dimms) = 2
    /\ \E i \in MemoryRecords : IsMegabytesRecord(i) /\ RawSize(i) = 32766
    /\ \E i \in MemoryRecords : IsExtendedRecord(i)

\* C5: a record with the 0x7FFF sentinel and no extended-size field yields a
\* DimmInfo of 0x7FFF * 1024 * 1024 bytes.
C5_SentinelWithoutExtendedYieldsRaw ==
    MemoryDone =>
        \A i \in MemoryRecords :
            (IsSentinelRecord(i) /\ IsNone(dmi.structures[i].extended_size)) =>
                \E k \in DimmsFor(i) :
                    MemoryOut.dimms[k].size_bytes = Some([mib |-> SeeExtendedSizeRaw, b |-> 0])

HasNoCapacity(i) ==
    \/ IsNone(dmi.structures[i].size)
    \/ RawSize(i) = 0
    \/ RawSize(i) = 32768
    \/ RawSize(i) = 65535
    \/ /\ IsSentinelRecord(i)
       /\ IsSome(dmi.structures[i].extended_size)
       /\ Unwrap(dmi.structures[i].extended_size) = 0

\* C6: every emitted DimmInfo has a size_bytes that is present and positive,
\* and a record reporting no installed capacity emits nothing.
C6_OnlyPopulatedSlotsEmitted ==
    MemoryDone =>
        /\ \A k \in 1..Len(MemoryOut.dimms) :
              /\ IsSome(MemoryOut.dimms[k].size_bytes)
              /\ U64Positive(Unwrap(MemoryOut.dimms[k].size_bytes))
        /\ \A i \in MemoryRecords : HasNoCapacity(i) => DimmsFor(i) = {}

\* a sentinel record whose extended size is zero stands next to a populated
\* record: one DIMM is emitted
C6_Witness ==
    /\ MemoryDone
    /\ Len(dmi.structures) = 2
    /\ \E i \in MemoryRecords :
          IsSentinelRecord(i) /\ HasNoCapacity(i)
    /\ Len(MemoryOut.dimms) = 1

UsableSpeed(field) == IsSome(field) /\ Unwrap(field) > 0 /\ Unwrap(field) < 65535

\* C7: an emitted DIMM carries the configured speed when that is usable,
\* otherwise the rated speed when that is usable, otherwise none.
C7_SpeedFallsBackToRated ==
    MemoryDone =>
        \A i \in MemoryRecords : \A k \in DimmsFor(i) :
            LET st == dmi.structures[i]
            IN  MemoryOut.dimms[k].speed_mt_s =
                    IF UsableSpeed(st.configured_memory_speed) THEN st.configured_memory_speed
                    ELSE IF UsableSpeed(st.speed) THEN st.speed
                    ELSE None

----------------------------------------------------------------------------
(* CPU collector: properties *)

CpuDone == pc = "cpu_done"

CpuOut == Unwrap(output)

\* the positions of the processor records of the table that was read
ProcessorRecords ==
    {i \in 1..Len(dmi.structures) : dmi.structures[i].kind = "ProcessorInformation"}

RECURSIVE PresentSum(_, _, _)
PresentSum(cpus, k, cores) ==
    IF k = 0 THEN 0
    ELSE LET v == IF cores THEN cpus[k].num_cores ELSE cpus[k].num_threads
         IN  PresentSum(cpus, k - 1, cores) + (IF IsSome(v) THEN Unwrap(v) ELSE 0)

Total(present, n) == (n > 0 /\ present = Some(n)) \/ (n = 0 /\ present = None)

\* C8: sockets is the number of emitted CpuSocket entries, cores and threads
\* the sums of their present counts, each absent when zero; two records of
\* 4 cores / 8 threads give 2, 8 and 16.
C8_TotalsAreCountAndSums ==
    CpuDone =>
        /\ Total(CpuOut.sockets, Len(CpuOut.cpus))
        /\ Total(CpuOut.cores, PresentSum(CpuOut.cpus, Len(CpuOut.cpus), TRUE))
        /\ Total(CpuOut.threads, PresentSum(CpuOut.cpus, Len(CpuOut.cpus), FALSE))
        /\ (/\ Cardinality(ProcessorRecords) = 2
            /\ \A i \in ProcessorRecords :
                  /\ dmi.structures[i].core_count = Some(4)
                  /\ dmi.structures[i].thread_count = Some(8))
           => (CpuOut.sockets = Some(2) /\ CpuOut.cores = Some(8) /\ CpuOut.threads = Some(16))

\* the scenario of the two 4-core / 8-thread processors at 2400 and 2600 MHz
\* whose cache handles resolve to nothing
C8_Witness ==
    /\ CpuDone
    /\ Len(CpuOut.cpus) = 2
    /\ CpuOut.cpus[1].capacity_mhz = Some(2400)
    /\ CpuOut.cpus[2].capacity_mhz = Some(2600)
    /\ \A k \in 1..2 : CpuOut.cpus[k].l1_cache_kb = None /\ CpuOut.cpus[k].l2_cache_kb = None
    /\ CpuOut.cores = Some(8)
    /\ CpuOut.threads = Some(16)

\* the position in the table of the k-th processor record
RECURSIVE NthProcessor(_, _)
NthProcessor(k, from) ==
    IF dmi.structures[from].kind = "ProcessorInformation"
    THEN IF k = 1 THEN from ELSE NthProcessor(k - 1, from + 1)
    ELSE NthProcessor(k, from + 1)

\* C9: cpus holds one CpuSocket per processor record; its i-th entry
\* (0-based) has socket = i and describes the i-th processor record of the
\* table.
C9_OneSocketPerRecordInTableOrder ==
    CpuDone =>
        /\ Len(CpuOut.cpus) = Cardinality(ProcessorRecords)
        /\ \A k \in 1..Len(CpuOut.cpus) :
              /\ CpuOut.cpus[k].socket = k - 1
              /\ k <= Cardinality(ProcessorRecords) =>
                    CpuOut.cpus[k].slot = Some(Designation(NthProcessor(k, 1)))

\* two processor records with another structure between them
C9_Witness ==
    /\ CpuDone
    /\ Len(dmi.structures) = 3
    /\ ProcessorRecords = {1, 3}
    /\ Len(CpuOut.cpus) = 2
    /\ CpuOut.cpus[2].slot = Some(Designation(3))

----------------------------------------------------------------------------
(* Network collector: properties *)

NetworkDone == pc = "network_done"

NetworkOut == Unwrap(output)

EmittedNames == {NetworkOut.interfaces[k].name : k \in 1..Len(NetworkOut.interfaces)}

\* the families of names the collector is to leave out
ExcludedFamily(name) ==
    \/ \E p \in {<<"l", "o">>,
            <<"v", "e", "t", "h">>,
            <<"d", "o", "c", "k", "e", "r">>,
            <<"b", "r", "-">>,
            <<"v", "i", "r", "b", "r">>,
            <<"c", "n", "i">>,
            <<"f", "l", "a", "n", "n", "e", "l">>,
            <<"k", "u", "b", "e">>,
            <<"t", "u", "n">>,
            <<"t", "a", "p">>,
            <<"v", "m", "n", "e", "t">>} : StartsWith(name, p)
    \/ Contains(name, <<"v", "l", "a", "n">>)

\* C10: no interface whose name belongs to an excluded virtual family is in
\* NetworkInfo.interfaces, whatever its sysfs contents.
C10_ExcludedFamiliesNeverEmitted ==
    NetworkDone => \A name \in EmittedNames : ~ExcludedFamily(name)

\* a veth interface that has a device entry was listed next to a physical
\* NIC, and only the NIC was emitted
C10_Witness ==
    /\ NetworkDone
    /\ IsSome(sysfs.class_net)
    /\ \E i \in 1..Len(Unwrap(sysfs.class_net)) :
          /\ Unwrap(sysfs.class_net)[i].name = <<"v", "e", "t", "h", "1">>
          /\ Unwrap(sysfs.class_net)[i].has_device
    /\ EmittedNames = {<<"e", "t", "h", "0">>}

\* the entries of /sys/class/net the subcommand has read
ClassNet == IF IsSome(sysfs.class_net) THEN Unwrap(sysfs.class_net) ELSE <<>>

ClassNetEntries == {ClassNet[i] : i \in 1..Len(ClassNet)}

\* the directory entry an emitted interface was built from
ClassNetEntry(name) == CHOOSE entry \in ClassNetEntries : entry.name = name

Emitted == {NetworkOut.interfaces[k] : k \in 1..Len(NetworkOut.interfaces)}

BondOrTeamNamed(name) == StartsWith(name, <<"b", "o", "n", "d">>) \/ StartsWith(name, <<"t", "e", "a", "m">>)

\* C11 as stated: every directory entry whose name starts with bond or team
\* is in NetworkInfo.interfaces, whatever the rest of its name and whether or
\* not it has a device entry.
C11_BondTeamAlwaysEmitted ==
    NetworkDone =>
        \A entry \in ClassNetEntries : BondOrTeamNamed(entry.name) => entry.name \in EmittedNames

\* C11: every directory entry whose name starts with bond or team and does
\* not contain "vlan" is in NetworkInfo.interfaces, whether or not it has a
\* device entry.
C11_BondTeamEmittedUnlessVlan ==
    NetworkDone =>
        \A entry \in ClassNetEntries :
            (BondOrTeamNamed(entry.name) /\ ~Contains(entry.name, <<"v", "l", "a", "n">>))
                => entry.name \in EmittedNames

\* team0 without a device entry was listed and emitted
C11_Witness ==
    /\ NetworkDone
    /\ \E entry \in ClassNetEntries : entry.name = <<"t", "e", "a", "m", "0">> /\ ~entry.has_device
    /\ <<"t", "e", "a", "m", "0">> \in EmittedNames

\* what `ip -j addr show <name>` reports for an entry: nothing when ip cannot
\* be run or prints no JSON
ReportedAddrInfo(entry) == IF tools.ip = "ok" THEN entry.addr_info ELSE <<>>

ReportsGlobalIpv4(entry) ==
    \E i \in 1..Len(ReportedAddrInfo(entry)) :
        /\ ReportedAddrInfo(entry)[i].family = "inet"
        /\ ReportedAddrInfo(entry)[i].scope = "global"

\* C12: an emitted interface without a master symlink is primary exactly
\* when its name starts with bond or team (then bond_group is its own name
\* and bond_master is absent) or ip reports a global IPv4 address for it; and
\* of lo, docker0, eth0 and bond0 exactly eth0 and bond0 are emitted, both
\* primary.
C12_PrimaryWithoutMaster ==
    NetworkDone =>
        /\ \A iface \in Emitted :
              IsNone(ClassNetEntry(iface.name).master) =>
                  /\ iface.is_primary <=>
                        (BondOrTeamNamed(iface.name) \/ ReportsGlobalIpv4(ClassNetEntry(iface.name)))
                  /\ BondOrTeamNamed(iface.name) =>
                        (iface.bond_group = Some(iface.name) /\ iface.bond_master = None)
        /\ (ClassNet = EndToEndListing /\ tools.ip = "ok") =>
              /\ Len(NetworkOut.interfaces) = 2
              /\ EmittedNames = {<<"e", "t", "h", "0">>, <<"b", "o", "n", "d", "0">>}
              /\ \A iface \in Emitted : iface.is_primary

\* the end-to-end listing was read with a working ip
C12_Witness ==
    /\ NetworkDone
    /\ ClassNet = EndToEndListing
    /\ tools.ip = "ok"
    /\ EmittedNames = {<<"e", "t", "h", "0">>, <<"b", "o", "n", "d", "0">>}

\* C13: an emitted interface that is not bond/team-named and has a master
\* symlink carries the master's name as bond_group and bond_master, and is
\* primary only if the master's name starts with bond or team.
C13_EnslavedPrimaryOnlyUnderBond ==
    NetworkDone =>
        \A iface \in Emitted :
            (~BondOrTeamNamed(iface.name) /\ IsSome(ClassNetEntry(iface.name).master)) =>
                /\ iface.bond_group = ClassNetEntry(iface.name).master
                /\ iface.bond_master = ClassNetEntry(iface.name).master
                /\ iface.is_primary => BondOrTeamNamed(Unwrap(ClassNetEntry(iface.name).master))

----------------------------------------------------------------------------
(* Storage collector: properties *)

StorageDone == pc = "storage_done"

StorageOut == Unwrap(output)

\* the entries of /sys/block the subcommand has read
Block == IF IsSome(sysfs.block) THEN Unwrap(sysfs.block) ELSE <<>>

\* the directory entry an emitted disk was built from
BlockEntry(name) == CHOOSE entry \in {Block[i] : i \in 1..Len(Block)} : entry.name = name

EmittedDisks == {StorageOut[k] : k \in 1..Len(StorageOut)}

IsNvmeName(name) == StartsWith(name, <<"n", "v", "m", "e">>)

\* nvme<c> of nvme<c>n<k>: the name up to the 'n' that starts the
\* namespace suffix
OwningController(name) ==
    LET suffix == SubSeq(name, 5, Len(name))
    IN  SubSeq(name, 1, 4 + IndexOf(suffix, "n") - 1)

\* the trimmed text of a readable file
FileText(file) == TrimStr(Unwrap(file))

\* C14: for a namespace device nvme<c>n<k> whose controller nvme<c> is in
\* /sys/class/nvme, firmware_version is the controller's firmware_rev, and
\* serial is the controller's serial when the device has no serial file of
\* its own.
C14_NvmeControllerResolved ==
    StorageDone =>
        \A d \in EmittedDisks :
            (IsNvmeName(d.name) /\ OwningController(d.name) \in DOMAIN sysfs.class_nvme) =>
                /\ d.firmware_version =
                      Some(FileText(sysfs.class_nvme[OwningController(d.name)].firmware_rev))
                /\ IsNone(BlockEntry(d.name).serial) =>
                      d.serial = Some(FileText(sysfs.class_nvme[OwningController(d.name)].serial))

\* the binaries' outcomes on an emitted disk
DiskTools(name) == tools[name]

\* what the sysfs attributes give for a disk: device/serial, and for an NVMe
\* namespace the files of the controller directory the collector resolves
SysfsSerial(entry) ==
    OrElse(read_to_string_trim(entry.serial),
           IF IsNvmeName(entry.name)
           THEN read_to_string_trim(NvmeAttribute(sysfs.class_nvme, NvmeController(entry.name), "serial"))
           ELSE None)

SysfsFirmware(entry) ==
    IF IsNvmeName(entry.name)
    THEN read_to_string_trim(NvmeAttribute(sysfs.class_nvme, NvmeController(entry.name), "firmware_rev"))
    ELSE None

\* serial and firmware_version of d are the first values available from
\* sysfs, smartctl and, where hdparm_applies, hdparm
FirstAvailable(d, hdparm_applies) ==
    LET entry == BlockEntry(d.name)
        runs == DiskTools(d.name)
    IN  /\ d.serial = FirstSome(<<SysfsSerial(entry), get_serial_from_smartctl(runs),
                                  IF hdparm_applies THEN get_serial_from_hdparm(runs) ELSE None>>)
        /\ d.firmware_version =
              FirstSome(<<SysfsFirmware(entry), get_firmware_from_smartctl(runs),
                          IF hdparm_applies THEN get_firmware_from_hdparm(runs) ELSE None>>)

\* C15 as stated: serial and firmware_version are each the first value in
\* the order sysfs, smartctl, hdparm, where hdparm is consulted for every
\* disk whose bus is not NVMe and never for an NVMe disk.
C15_HdparmForEveryNonNvmeBus ==
    StorageDone =>
        \A d \in EmittedDisks : FirstAvailable(d, d.bus_type # Some(<<"n", "v", "m", "e">>))

\* C15: serial and firmware_version are each the first value in the order
\* sysfs, smartctl, hdparm, where hdparm is consulted only for a disk whose
\* bus type is scsi.
C15_SysfsThenSmartctlThenHdparmOnScsi ==
    StorageDone =>
        \A d \in EmittedDisks : FirstAvailable(d, d.bus_type = Some(<<"s", "c", "s", "i">>))

\* a scsi disk without a sysfs serial on which smartctl gave no serial and
\* hdparm did
C15_Witness ==
    /\ StorageDone
    /\ \E d \in EmittedDisks :
          /\ d.bus_type = Some(<<"s", "c", "s", "i">>)
          /\ IsNone(SysfsSerial(BlockEntry(d.name)))
          /\ DiskTools(d.name).smartctl_i.success
          /\ IsNone(get_serial_from_smartctl(DiskTools(d.name)))
          /\ IsSome(get_serial_from_hdparm(DiskTools(d.name)))
          /\ d.serial = get_serial_from_hdparm(DiskTools(d.name))

\* the verdict words found in the output of `smartctl -H`
Reports(name, verdict) ==
    /\ DiskTools(name).smartctl_h.spawned
    /\ \E i \in 1..Len(DiskTools(name).smartctl_h.stdout) :
          Contains(DiskTools(name).smartctl_h.stdout[i], verdict)

\* C16: SmartInfo.health is PASSED, FAILED or absent; PASSED only when the
\* output reports PASSED and not FAILED, FAILED only when it reports FAILED
\* and not PASSED, and absent when it reports neither or both.
C16_HealthOnlyWhenUnambiguous ==
    StorageDone =>
        \A d \in EmittedDisks :
            IsSome(d.smart) =>
                LET health == Unwrap(d.smart).health
                IN  /\ health \in {None, Some(<<"P", "A", "S", "S", "E", "D">>), Some(<<"F", "A", "I", "L", "E", "D">>)}
                    /\ health = Some(<<"P", "A", "S", "S", "E", "D">>) =>
                          (Reports(d.name, <<"P", "A", "S", "S", "E", "D">>) /\ ~Reports(d.name, <<"F", "A", "I", "L", "E", "D">>))
                    /\ health = Some(<<"F", "A", "I", "L", "E", "D">>) =>
                          (Reports(d.name, <<"F", "A", "I", "L", "E", "D">>) /\ ~Reports(d.name, <<"P", "A", "S", "S", "E", "D">>))
                    /\ (Reports(d.name, <<"P", "A", "S", "S", "E", "D">>) <=> Reports(d.name, <<"F", "A", "I", "L", "E", "D">>)) =>
                          health = None

----------------------------------------------------------------------------
(* PCI names and GPU collector: properties *)

PciNamesDone == pc = "pci_names_done"

PciNames == Unwrap(output)

\* the id a vendor or device file holds
IdOf(file) == read_hex_file(file)

\* the vendor is in the database and the device is not listed under it
KnownVendorUnknownDevice ==
    /\ IsSome(sysfs.pci_ids)
    /\ IsSome(IdOf(sysfs.vendor))
    /\ IsSome(IdOf(sysfs.device))
    /\ Unwrap(IdOf(sysfs.vendor)) \in DOMAIN Unwrap(sysfs.pci_ids)
    /\ Unwrap(IdOf(sysfs.device)) \notin DOMAIN Unwrap(sysfs.pci_ids)[Unwrap(IdOf(sysfs.vendor))].devices

\* name is "Unknown Device [<token>]" and the token reads as the device id
UnknownDeviceLabel(name, device_id) ==
    /\ StartsWith(name, <<"U", "n", "k", "n", "o", "w", "n", " ", "D", "e", "v", "i", "c", "e", " ", "[">>)
    /\ name[Len(name)] = "]"
    /\ ParseHexU16(StripHexPrefix(SubSeq(name, 17, Len(name) - 1))) = Some(device_id)

\* C17: for a vendor id in the PCI ID database and a device id not listed
\* under it, both resolvers give a device name, of the form
\* "Unknown Device [<id>]" holding the device id.
C17_UnknownDeviceLabelled ==
    (PciNamesDone /\ KnownVendorUnknownDevice) =>
        /\ IsSome(PciNames.network.device_name)
        /\ UnknownDeviceLabel(Unwrap(PciNames.network.device_name), Unwrap(IdOf(sysfs.device)))
        /\ IsSome(PciNames.gpu)
        /\ IsSome(Unwrap(PciNames.gpu).model)
        /\ UnknownDeviceLabel(Unwrap(Unwrap(PciNames.gpu).model), Unwrap(IdOf(sysfs.device)))

\* device 0x2000 of vendor 0x8086, under which the database lists nothing
C17_Witness ==
    /\ PciNamesDone
    /\ KnownVendorUnknownDevice
    /\ sysfs.device = Some(<<"0", "x", "2", "0", "0", "0", "\n">>)
    /\ PciNames.network.device_name = Some(<<"U", "n", "k", "n", "o", "w", "n", " ", "D", "e", "v", "i", "c", "e", " ", "[", "0", "x", "2", "0", "0", "0", "]">>)
    /\ Unwrap(PciNames.gpu).model = Some(<<"U", "n", "k", "n", "o", "w", "n", " ", "D", "e", "v", "i", "c", "e", " ", "[", "0", "x", "2", "0", "0", "0", "]">>)

GpusDone == pc = "gpus_done"

GpusOut == Unwrap(output)

PciDevices == IF IsSome(sysfs.pci_devices) THEN Unwrap(sysfs.pci_devices) ELSE <<>>

\* the class file holds a code of the VGA (0x0300xx), 3D (0x0302xx) or
\* Display (0x0380xx) range
DisplayClass(device) ==
    /\ IsSome(device.class)
    /\ \E range \in {<<"0", "x", "0", "3", "0", "0">>, <<"0", "x", "0", "3", "0", "2">>, <<"0", "x", "0", "3", "8", "0">>} : StartsWith(TrimStr(Unwrap(device.class)), range)

\* the devices of display class, in listing order
RECURSIVE DisplayDevices(_)
DisplayDevices(devices) ==
    IF devices = <<>> THEN <<>>
    ELSE IF DisplayClass(Head(devices)) THEN <<Head(devices)>> \o DisplayDevices(Tail(devices))
    ELSE DisplayDevices(Tail(devices))

\* C18: collect_gpus emits exactly one GpuInfo for each PCI device whose
\* class code lies in the VGA, 3D or Display range, and none for any other
\* device.
C18_ClassCodeAloneDecides ==
    GpusDone =>
        /\ Len(GpusOut) = Len(DisplayDevices(PciDevices))
        /\ \A k \in 1..Len(GpusOut) :
              GpusOut[k].pci_address = DisplayDevices(PciDevices)[k].address

\* the whitespace-separated tokens of a name, in lower case
Tokens(name) ==
    LET str == ToLowercase(name)
    IN  {SubSeq(str, p[1], p[2]) : p \in
            {q \in (1..Len(str)) \X (1..Len(str)) :
                /\ q[1] <= q[2]
                /\ \A k \in q[1]..q[2] : str[k] \notin Whitespace
                /\ q[1] = 1 \/ str[q[1] - 1] \in Whitespace
                /\ q[2] = Len(str) \/ str[q[2] + 1] \in Whitespace}}

\* some token of the tool's name longer than 3 characters is a substring of
\* some token of the PCI name
MatchesByToken(tool_name, pci_name) ==
    \E t \in Tokens(tool_name), p \in Tokens(pci_name) : Len(t) > 3 /\ Contains(p, t)

\* the comma-separated, trimmed fields of the rows nvidia-smi printed
NvidiaRows ==
    IF tools.nvidia_smi.spawned /\ tools.nvidia_smi.success
    THEN [i \in 1..Len(tools.nvidia_smi.stdout) |->
            LET raw == SplitAll(tools.nvidia_smi.stdout[i], ",")
            IN  [k \in 1..Len(raw) |-> TrimStr(raw[k])]]
    ELSE <<>>

\* the rows with the four fields whose name matches the GPU's model
MatchingRows(gpu) ==
    {i \in 1..Len(NvidiaRows) :
        /\ Len(NvidiaRows[i]) >= 4
        /\ IsSome(gpu.model)
        /\ MatchesByToken(NvidiaRows[i][1], Unwrap(gpu.model))}

IsNvidia(gpu) == IsSome(gpu.vendor) /\ Contains(ToLowercase(Unwrap(gpu.vendor)), <<"n", "v", "i", "d", "i", "a">>)

\* C27: gpu_models_match holds exactly when a token of the tool's name
\* longer than 3 characters is, case-insensitively, a substring of a token
\* of the PCI name; an NVIDIA GPU gets vram_mb, driver_version and uuid from
\* the first row of the tool's output whose name matches its model in this
\* sense and from no other row, and no GPU has a driver_version or uuid
\* without such a row.
C27_EnrichedOnlyFromMatchingRow ==
    /\ pc = "names_matched" =>
          output = Some(MatchesByToken(tools.nvidia_name, sysfs.pci_name))
    /\ GpusDone =>
          \A k \in 1..Len(GpusOut) :
              LET gpu == GpusOut[k]
                  rows == MatchingRows(gpu)
                  row == NvidiaRows[CHOOSE i \in rows : \A j \in rows : i <= j]
              IN  IF IsNvidia(gpu) /\ rows # {}
                  THEN /\ gpu.vram_mb = ParseU32(row[2])
                       /\ gpu.driver_version = Some(row[3])
                       /\ gpu.uuid = Some(row[4])
                  ELSE /\ gpu.driver_version = None
                       /\ gpu.uuid = None
                       /\ IsNvidia(gpu) => gpu.vram_mb = None

\* the V100 is enriched from the second row of the tool's output, the first
\* row naming another model
C27_Witness ==
    /\ GpusDone
    /\ Len(GpusOut) = 1
    /\ MatchingRows(GpusOut[1]) = {2}
    /\ GpusOut[1].uuid = Some(<<"G", "P", "U", "-", "5", "b">>)
    /\ GpusOut[1].vram_mb = Some(32510)

\* C29: no two reported GPUs with different PCI addresses carry the same
\* uuid: a row of the tool's output enriches at most one GPU.
C29_UuidNotShared ==
    GpusDone =>
        \A i, j \in 1..Len(GpusOut) :
            (/\ GpusOut[i].pci_address # GpusOut[j].pci_address
             /\ IsSome(GpusOut[i].uuid))
                => GpusOut[i].uuid # GpusOut[j].uuid

----------------------------------------------------------------------------
(* Power collector: properties *)

PowerDone == pc = "power_done"

PowerOut == Unwrap(output)

\* what a strategy contributes
Entries(strategy) == IF IsSome(strategy) THEN Unwrap(strategy) ELSE <<>>

FromDmidecode == Entries(collect_power_supplies_dmidecode(tools))

FromIpmi == Entries(collect_power_supplies_ipmi(tools))

FromLshw == Entries(collect_power_supplies_lshw(tools))

FromUps == Entries(collect_ups_information(tools))

FromSysfs == Entries(collect_power_supplies_sysfs(sysfs.class_power_supply))

\* C19: the result of collect_power_supplies is the concatenation of what
\* the five strategies give, in the order dmidecode, IPMI sensor list, lshw,
\* UPS, sysfs, each running whatever the earlier ones returned; its length
\* is the sum of their entry counts.
C19_FiveStrategiesConcatenated ==
    PowerDone =>
        /\ PowerOut = FromDmidecode \o FromIpmi \o FromLshw \o FromUps \o FromSysfs
        /\ Len(PowerOut) = Len(FromDmidecode) + Len(FromIpmi) + Len(FromLshw)
                              + Len(FromUps) + Len(FromSysfs)

\* the dmidecode parser and the sysfs walker found one power supply each,
\* and the result holds the two entries
C19_Witness ==
    /\ PowerDone
    /\ Len(FromDmidecode) = 1
    /\ Len(FromSysfs) = 1
    /\ Len(PowerOut) = 2
    /\ PowerOut[1] = FromDmidecode[1]
    /\ PowerOut[2] = FromSysfs[1]

----------------------------------------------------------------------------
(* Node collector: properties *)

NodeDone == pc = "node_done"

Bmc == Unwrap(Unwrap(output).bmc)

\* what each BMC strategy finds on the machine, in the order IPMI device
\* file, SMBIOS detector, network-management heuristic, ipmitool, Redfish
BmcStrategies ==
    <<detect_ipmi_device(sysfs.dev),
      detect_smbios_bmc,
      detect_network_management(sysfs.class_net, tools),
      collect_ipmi_bmc(tools),
      collect_redfish_bmc(tools)>>

\* the k-th of `strategies` is the first that found something
FirstToSucceed(strategies, k) ==
    /\ IsSome(strategies[k])
    /\ \A j \in 1..(k - 1) : IsNone(strategies[j])

\* the machine with everything only the strategies after the k-th look at
\* taken away
FilesUpTo(k) ==
    [sysfs EXCEPT !.class_net = IF k >= 3 THEN @ ELSE None]

ToolsUpTo(k) ==
    [netstat |-> IF k >= 3 THEN tools.netstat ELSE Absent,
     which |-> IF k >= 4 THEN tools.which ELSE Absent,
     ipmitool_mc_info |-> IF k >= 4 THEN tools.ipmitool_mc_info ELSE Absent,
     ipmitool_lan_print |-> IF k >= 4 THEN tools.ipmitool_lan_print ELSE Absent,
     curl |-> IF k >= 5 THEN tools.curl ELSE [indicator \in RedfishIndicators |-> Absent]]

\* C20: the BMC strategies are tried in the order IPMI device file, SMBIOS
\* detector (which never succeeds), network-management heuristic, ipmitool,
\* Redfish probe; the reported BMC is the result of the first one that
\* succeeds, nothing a later strategy would look at has any influence on it,
\* and a strategy that finds nothing hands over to the next one (an empty
\* BMC record is reported when all of them find nothing).
C20_FirstSuccessfulBmcStrategy ==
    NodeDone =>
        LET strategies == BmcStrategies
            bmc == Bmc
        IN  /\ IsNone(strategies[2])
            /\ \A k \in 1..5 :
                  FirstToSucceed(strategies, k) =>
                      /\ bmc = Unwrap(strategies[k])
                      /\ bmc = collect_bmc_from_dmi(FilesUpTo(k), ToolsUpTo(k))
            /\ (\A k \in 1..5 : IsNone(strategies[k])) => bmc = EmptyBmc

\* no IPMI device file and no management interface or port, ipmitool
\* reports a firmware revision and the Redfish probe answers as well: the
\* ipmitool record is the one reported
C20_Witness ==
    /\ NodeDone
    /\ LET strategies == BmcStrategies
       IN  /\ FirstToSucceed(strategies, 4)
           /\ IsSome(strategies[5])
           /\ IsSome(Bmc.firmware_version)
           /\ Bmc = Unwrap(strategies[4])
           /\ Bmc # Unwrap(strategies[5])

\* what the firmware tables use to say "no value"
FirmwarePlaceholders == {"", "Not Specified", "To Be Filled By O.E.M.", "Default string"}

NodeOut == Unwrap(output)

\* the firmware-derived strings of the reported NodeInfo
NodeFirmwareFields ==
    {NodeOut.product_name, NodeOut.manufacturer, NodeOut.serial_number,
     NodeOut.chassis_manufacturer, NodeOut.chassis_serial_number}
    \cup (IF IsSome(NodeOut.motherboard)
          THEN {Unwrap(NodeOut.motherboard)[f] : f \in DOMAIN Unwrap(NodeOut.motherboard)}
          ELSE {})
    \cup (IF IsSome(NodeOut.bios)
          THEN {Unwrap(NodeOut.bios)[f] : f \in DOMAIN Unwrap(NodeOut.bios)}
          ELSE {})

\* C21: a firmware string that is empty or one of the placeholders
\* "Not Specified", "To Be Filled By O.E.M.", "Default string" is reported
\* as absent, in every firmware-derived field of the node record alike: no
\* reported field carries one of them.
C21_PlaceholdersReportedAbsent ==
    NodeDone =>
        \A field \in NodeFirmwareFields :
            IsSome(field) => Unwrap(field) \notin FirmwarePlaceholders

----------------------------------------------------------------------------
(* The seven collectors of collect_full_inventory run as tasks in any      *)
(* order against one snapshot of the machine, the aggregator waiting for   *)
(* all of them                                                             *)

\* the machines: firmware table readable or not, tools answering or not
Environments ==
    { [dmi |-> d,
       files |-> [node |-> n.files,
                  disks |-> [block |-> s.block, class_nvme |-> <<>>],
                  network |-> [class_net |-> w.class_net],
                  gpus |-> [pci_devices |-> g.pci_devices, pci_ids |-> g.pci_ids],
                  power_supplies |-> [class_power_supply |-> p.class_power_supply]],
       runs |-> [node |-> n.runs, disks |-> s.runs, network |-> [ip |-> w.ip],
                 gpus |-> g.runs, power_supplies |-> p.runs]] :
        d \in DmiCases,
        n \in {c \in NodeCases : IsSome(c.files.class_net)},
        s \in {c \in StorageCases : IsSome(c.block) /\ \A name \in DOMAIN c.runs : c.runs[name].smartctl_h.success},
        w \in {c \in NetworkCases : c.ip = "ok"},
        g \in {c \in GpuCases : IsSome(c.pci_devices)},
        p \in {c \in PowerCases : IsSome(c.class_power_supply)} }

\* the collectors with one firmware-table reader shared between the CPU and
\* the memory collector, which the CPU collector leaves exhausted
CollectorResultSharedTable(category, order) ==
    CASE category = "node" -> collect_node_info(dmi, sysfs.node, tools.node)
      [] category = "cpu" -> collect_cpu_info(dmi, order)
      [] category = "memory" ->
            collect_memory_info(IF "cpu" \in DOMAIN locals THEN DmiUnavailable ELSE dmi)
      [] category = "disks" ->
            collect_disks(sysfs.disks.block, sysfs.disks.class_nvme, tools.disks)
      [] category = "network" ->
            collect_network_info(sysfs.network.class_net, tools.network.ip, RouteJson)
      [] category = "gpus" ->
            collect_gpus(sysfs.gpus.pci_devices, sysfs.gpus.pci_ids, tools.gpus)
      [] category = "power_supplies" ->
            collect_power_supplies(sysfs.power_supplies.class_power_supply,
                                   tools.power_supplies)

\* what one collector returns on the machine held in dmi, sysfs and tools;
\* order is the iteration order of the CPU collector's HashMap
CollectorResult(category, order) ==
    CASE category = "node" -> collect_node_info(dmi, sysfs.node, tools.node)
      [] category = "cpu" -> collect_cpu_info(dmi, order)
      [] category = "memory" -> collect_memory_info(dmi)
      [] category = "disks" ->
            collect_disks(sysfs.disks.block, sysfs.disks.class_nvme, tools.disks)
      [] category = "network" ->
            collect_network_info(sysfs.network.class_net, tools.network.ip, RouteJson)
      [] category = "gpus" ->
            collect_gpus(sysfs.gpus.pci_devices, sysfs.gpus.pci_ids, tools.gpus)
      [] category = "power_supplies" ->
            collect_power_supplies(sysfs.power_supplies.class_power_supply,
                                   tools.power_supplies)

\* the machine the run is started on
StartTasks ==
    /\ pc = "main"
    /\ \E machine \in Environments :
          /\ dmi' = machine.dmi
          /\ sysfs' = machine.files
          /\ tools' = machine.runs
    /\ pc' = "tasks_running"
    /\ UNCHANGED <<locals, output>>

\* one collector that has not run yet runs and binds its own local
CollectorTask ==
    /\ pc = "tasks_running"
    /\ \E category \in Categories \ DOMAIN locals :
          \E order \in IterationOrders(DOMAIN collect_with_smbios(dmi)) :
              locals' = Bound(locals, category, CollectorResult(category, order))
    /\ UNCHANGED <<pc, dmi, sysfs, tools, output>>

\* the aggregator, once every task has returned
JoinTasks ==
    /\ pc = "tasks_running"
    /\ DOMAIN locals = Categories
    /\ output' = Some(Inventory(locals))
    /\ pc' = "tasks_joined"
    /\ UNCHANGED <<dmi, sysfs, tools, locals>>

AnyOrderNext ==
    \/ StartTasks
    \/ CollectorTask
    \/ JoinTasks

SpecAnyOrder == Init /\ [][AnyOrderNext]_vars

\* the locals of collect_full_inventory after its first k statements, run
\* one after the other on the machine held in dmi, sysfs and tools
SequentialOrder ==
    <<"node", "cpu", "memory", "disks", "network", "gpus", "power_supplies">>

RECURSIVE SequentialLocals(_)
SequentialLocals(k) ==
    IF k = 0 THEN <<>>
    ELSE Bound(SequentialLocals(k - 1), SequentialOrder[k],
               CollectorResult(SequentialOrder[k],
                               CHOOSE order \in IterationOrders(DOMAIN collect_with_smbios(dmi)) : TRUE))

----------------------------------------------------------------------------
(* The three firmware-based collectors on a machine that keeps a copy of   *)
(* the firmware table under a second path                                  *)

FirmwareTables ==
    {WithDesignations(WithLocators(
        <<SystemInformation(Some("SYS-1029"), Some("S2101")), p, m>>)) :
        p \in Processors,
        m \in {d \in MemoryDevices : d.manufacturer \in {Some("Micron"), Some("Not Specified")}}}

\* node fields, CPU and memory as collect_full_inventory obtains them, each
\* collector loading the table itself
FirmwareCollectors(snapshot, order) ==
    [node |-> collect_dmi_info(snapshot),
     cpu |-> collect_cpu_info(snapshot, order),
     memory |-> collect_memory_info(snapshot)]

\* outcome is how try_load_from_file and fs::read of
\* /sys/firmware/dmi/tables/DMI end; secondary is the table another path
\* would give, which no collector opens
CollectFirmwareBased ==
    /\ pc = "main"
    /\ \E outcome \in DmiLoadOutcomes, table \in FirmwareTables,
          secondary \in {None, Some(MachineTable)} :
          LET snapshot == DmiSnapshot(outcome, table)
          IN  \E order \in IterationOrders(DOMAIN collect_with_smbios(snapshot)) :
                 /\ dmi' = [try_load |-> snapshot.try_load, read |-> snapshot.read,
                            structures |-> snapshot.structures, secondary |-> secondary]
                 /\ output' = Some(FirmwareCollectors(snapshot, order))
    /\ pc' = "firmware_done"
    /\ UNCHANGED <<sysfs, tools, locals>>

SpecFirmwareLoad == Init /\ [][CollectFirmwareBased]_vars

FirmwareDone == pc = "firmware_done"

\* what the three collectors report from a table that was read
ReportedFrom(table) ==
    LET snapshot == DmiSnapshot(<<"ok", "ok">>, table)
    IN  FirmwareCollectors(snapshot,
            CHOOSE order \in IterationOrders(DOMAIN collect_with_smbios(snapshot)) : TRUE)

\* C23: when the firmware table cannot be loaded from the primary path, the
\* CPU, memory and node collectors load it from a secondary path and report
\* what that table holds; only when neither can be read do they report no
\* sockets, no DIMMs and absent node fields.
C23_SecondaryPathTried ==
    FirmwareDone =>
        /\ (dmi.try_load = "err" /\ dmi.read = "err" /\ IsSome(dmi.secondary)) =>
              output = Some(ReportedFrom(Unwrap(dmi.secondary)))
        /\ (dmi.try_load = "err" /\ dmi.read = "err" /\ IsNone(dmi.secondary)) =>
              output = Some(ReportedFrom(<<>>))

----------------------------------------------------------------------------
(* testing/dcgm.rs: the parsers of the dcgmi output *)

\* the line from its first numeric character on: `&line[start..]`
FromFirstDigit(line) ==
    IF \E i \in 1..Len(line) : IsDigit(line[i])
    THEN Some(SubSeq(line, CHOOSE i \in 1..Len(line) :
                                IsDigit(line[i]) /\ \A j \in 1..(i - 1) : ~IsDigit(line[j]),
                     Len(line)))
    ELSE None

\* `.chars().take_while(|c| c.is_numeric() || *c == '.')`
RECURSIVE TakeVersionChars(_)
TakeVersionChars(str) ==
    IF str # <<>> /\ (IsDigit(Head(str)) \/ Head(str) = ".")
    THEN <<Head(str)>> \o TakeVersionChars(Tail(str))
    ELSE <<>>

\* the first loop: lines like "DCGM version: 3.1.7"
RECURSIVE DcgmVersionLabelled(_)
DcgmVersionLabelled(lines) ==
    IF lines = <<>> THEN None
    ELSE LET line == Head(lines)
             part == SplitNth1(line, ":")
         IN  IF /\ Contains(line, <<"v", "e", "r", "s", "i", "o", "n">>) \/ Contains(line, <<"V", "e", "r", "s", "i", "o", "n">>)
                /\ IsSome(part)
                /\ TrimStr(Unwrap(part)) # <<>>
             THEN Some(TrimStr(Unwrap(part)))
             ELSE DcgmVersionLabelled(Tail(lines))

\* "Fallback: look for version patterns"
RECURSIVE DcgmVersionPattern(_)
DcgmVersionPattern(lines) ==
    IF lines = <<>> THEN None
    ELSE LET version_part == FromFirstDigit(Head(lines))
         IN  IF IsSome(version_part) /\ TakeVersionChars(Unwrap(version_part)) # <<>>
             THEN Some(TakeVersionChars(Unwrap(version_part)))
             ELSE DcgmVersionPattern(Tail(lines))

\* a parser that only looks for the pattern
parse_dcgm_version_pattern_only(output_lines) == DcgmVersionPattern(output_lines)

\* output_lines is output.lines()
parse_dcgm_version(output_lines) ==
    OrElse(DcgmVersionLabelled(output_lines), DcgmVersionPattern(output_lines))

\* a count of the lines that mention a GPU
RECURSIVE count_gpus_in_discovery_any_gpu_line(_)
count_gpus_in_discovery_any_gpu_line(output_lines) ==
    IF output_lines = <<>> THEN 0
    ELSE (IF Contains(Head(output_lines), <<"G", "P", "U">>) THEN 1 ELSE 0)
         + count_gpus_in_discovery_any_gpu_line(Tail(output_lines))

RECURSIVE count_gpus_in_discovery(_)
count_gpus_in_discovery(output_lines) ==
    IF output_lines = <<>> THEN 0
    ELSE (IF Contains(Head(output_lines), <<"G", "P", "U">>) /\ Contains(Head(output_lines), <<"-", ">">>)
          THEN 1 ELSE 0)
         + count_gpus_in_discovery(Tail(output_lines))

----------------------------------------------------------------------------
(* What the dcgmi parsers are run against *)

MaxDcgmLines == 2

VersionLines ==
    {<<"D", "C", "G", "M", " ", "v", "e", "r", "s", "i", "o", "n", ":", " ", "3", ".", "1", ".", "7">>, <<"V", "e", "r", "s", "i", "o", "n", " ", ":", " ", "2", ".", "4", ".", "6", " ">>, <<"v", "e", "r", "s", "i", "o", "n", ":">>, <<"V", "e", "r", "s", "i", "o", "n", ":", " ", " ">>,
     <<"d", "c", "g", "m", "i", " ", "v", "e", "r", "s", "i", "o", "n", " ", "2", ".", "0", ".", "1", "3">>, <<"B", "u", "i", "l", "d", " ", "D", "a", "t", "e", ":", " ", "2", "0", "2", "3", "-", "0", "3", "-", "0", "1">>, <<"V", "e", "r", "s", "i", "o", "n", ":", " ", "3", ".", "1", ".", "7", ":", " ", "r", "c", "1">>,
     <<"v", "e", "r", "s", "i", "o", "n", ":", " ", ":", " ", "3">>, <<"V", "E", "R", "S", "I", "O", "N", ":", " ", "4", ".", "0">>, <<"V", "e", "r", "s", "i", "o", "n", ":", " ", "v", "3", ".", "1", ".", "7", "-", "r", "c", "1">>, <<"n", "o", " ", "d", "a", "e", "m", "o", "n">>, <<>>}

DiscoveryLines ==
    {<<"G", "P", "U", " ", "0", ":", " ", "T", "e", "s", "l", "a", " ", "V", "1", "0", "0", " ", "-", ">", " ", "H", "e", "a", "l", "t", "h", "y">>, <<"G", "P", "U", " ", "1", ":", " ", "T", "e", "s", "l", "a", " ", "V", "1", "0", "0", " ", "-", ">", " ", "H", "e", "a", "l", "t", "h", "y">>,
     <<"|", " ", "G", "P", "U", " ", "I", "D", " ", "|", " ", "D", "e", "v", "i", "c", "e", " ", "I", "n", "f", "o", "r", "m", "a", "t", "i", "o", "n", " ", "|">>, <<"-", ">", " ", "0">>, <<"g", "p", "u", " ", "2", " ", "-", ">", " ", "o", "k">>, <<"-", ">", "G", "P", "U">>, <<>>}

Texts(lines, n) == UNION {[1..k -> lines] : k \in 0..n}

\* `dcgmi --version` answered
DcgmVersion ==
    /\ pc = "main"
    /\ \E text \in Texts(VersionLines, MaxDcgmLines) :
          /\ tools' = [dcgmi_version |-> ExitZero(text)]
          /\ output' = Some(parse_dcgm_version(text))
    /\ pc' = "dcgm_version_done"
    /\ UNCHANGED <<dmi, sysfs, locals>>

\* `dcgmi discovery -l` answered
DcgmDiscovery ==
    /\ pc = "main"
    /\ \E text \in Texts(DiscoveryLines, MaxDcgmLines) :
          /\ tools' = [dcgmi_discovery |-> ExitZero(text)]
          /\ output' = Some(count_gpus_in_discovery(text))
    /\ pc' = "dcgm_discovery_done"
    /\ UNCHANGED <<dmi, sysfs, locals>>

DcgmNext ==
    \/ DcgmVersion
    \/ DcgmDiscovery

SpecDcgm == Init /\ [][DcgmNext]_vars

----------------------------------------------------------------------------
(* dcgmi parsers: properties *)

DcgmVersionDone == pc = "dcgm_version_done"

VersionText == tools.dcgmi_version.stdout

IsVersionLine(line) == Contains(line, <<"v", "e", "r", "s", "i", "o", "n">>) \/ Contains(line, <<"V", "e", "r", "s", "i", "o", "n">>)

\* everything after the first ':' of the line, trimmed; empty without a ':'
AfterColon(line) ==
    IF IndexOf(line, ":") = 0 THEN <<>>
    ELSE TrimStr(SubSeq(line, IndexOf(line, ":") + 1, Len(line)))

\* the text between the first ':' of the line and the next one (or the end
\* of the line), trimmed; empty without a ':'
BetweenColons(line) ==
    LET rest == SubSeq(line, IndexOf(line, ":") + 1, Len(line))
    IN  IF IndexOf(line, ":") = 0 THEN <<>>
        ELSE TrimStr(IF IndexOf(rest, ":") = 0 THEN rest
                     ELSE SubSeq(rest, 1, IndexOf(rest, ":") - 1))

VersionChars == {"0", "1", "2", "3", "4", "5", "6", "7", "8", "9", "."}

\* str is the longest run of digits and dots that starts at the first digit
\* of the line
IsFirstRun(line, str) ==
    \E i \in 1..Len(line) :
        /\ line[i] \in VersionChars \ {"."}
        /\ \A j \in 1..(i - 1) : line[j] \notin VersionChars \ {"."}
        /\ \E k \in i..Len(line) :
              /\ str = SubSeq(line, i, k)
              /\ \A j \in i..k : line[j] \in VersionChars
              /\ k = Len(line) \/ line[k + 1] \notin VersionChars

HasDigit(line) == \E i \in 1..Len(line) : line[i] \in VersionChars \ {"."}

\* the version reported for the text, Value(line) being the value a
\* version line carries
VersionIs(Value(_)) ==
    LET labelled == {i \in 1..Len(VersionText) :
                        IsVersionLine(VersionText[i]) /\ Value(VersionText[i]) # <<>>}
        numbered == {i \in 1..Len(VersionText) : HasDigit(VersionText[i])}
        Min(set) == CHOOSE i \in set : \A j \in set : i <= j
    IN  IF labelled # {}
        THEN output = Some(Some(Value(VersionText[Min(labelled)])))
        ELSE IF numbered # {}
        THEN /\ IsSome(Unwrap(output))
             /\ IsFirstRun(VersionText[Min(numbered)], Unwrap(Unwrap(output)))
        ELSE output = Some(None)

\* C24 as stated: the version is everything that follows the colon of the
\* first version line with a value, trimmed; otherwise the first run of
\* digits and dots; otherwise absent.
C24_TextAfterColon ==
    DcgmVersionDone => VersionIs(AfterColon)

\* C24: the version is the trimmed text between the first colon and the
\* next colon (or the end of the line) on the first line that contains
\* "version" or "Version" and has such a text; when there is no such line
\* it is the run of digits and dots that starts at the first digit of the
\* first line holding a digit; it is absent when no line holds a digit.
C24_TextBetweenColons ==
    DcgmVersionDone => VersionIs(BetweenColons)

\* a version line without a value, then "Version: 3.1.7: rc1": 3.1.7 is
\* reported
C24_Witness ==
    /\ DcgmVersionDone
    /\ VersionText = <<<<"V", "e", "r", "s", "i", "o", "n", ":", " ", " ">>, <<"V", "e", "r", "s", "i", "o", "n", ":", " ", "3", ".", "1", ".", "7", ":", " ", "r", "c", "1">>>>
    /\ output = Some(Some(<<"3", ".", "1", ".", "7">>))

DcgmDiscoveryDone == pc = "dcgm_discovery_done"

DiscoveryText == tools.dcgmi_discovery.stdout

\* C25: the count is the number of lines that contain both "GPU" and "->",
\* and 0 when no line does.
C25_CountsLinesWithBoth ==
    DcgmDiscoveryDone =>
        output = Some(Cardinality({i \in 1..Len(DiscoveryText) :
                                      /\ Contains(DiscoveryText[i], <<"G", "P", "U">>)
                                      /\ Contains(DiscoveryText[i], <<"-", ">">>)}))

\* the two lines of the unit test give 2
C25_Witness ==
    /\ DcgmDiscoveryDone
    /\ DiscoveryText = <<<<"G", "P", "U", " ", "0", ":", " ", "T", "e", "s", "l", "a", " ", "V", "1", "0", "0", " ", "-", ">", " ", "H", "e", "a", "l", "t", "h", "y">>, <<"G", "P", "U", " ", "1", ":", " ", "T", "e", "s", "l", "a", " ", "V", "1", "0", "0", " ", "-", ">", " ", "H", "e", "a", "l", "t", "h", "y">>>>
    /\ output = Some(2)

----------------------------------------------------------------------------
(* The dmidecode PSU parser on texts of a few lines *)

MaxPsuLines == 4

PsuLines ==
    {<<"P", "o", "w", "e", "r", " ", "S", "u", "p", "p", "l", "y", " ", "H", "a", "n", "d", "l", "e", " ", "0", "x", "0", "0", "2", "7">>, <<"P", "o", "w", "e", "r", " ", "S", "u", "p", "p", "l", "y", " ", "H", "a", "n", "d", "l", "e", ":", " ", "0", "x", "0", "0", "2", "8">>, <<" ", " ", "N", "a", "m", "e", ":", " ", "P", "S", "U", "1">>,
     <<"N", "a", "m", "e", ":", " ", "P", "S", "U", "2">>, <<" ", " ", "M", "a", "x", " ", "P", "o", "w", "e", "r", " ", "C", "a", "p", "a", "c", "i", "t", "y", ":", " ", "7", "5", "0", " ", "W">>, <<"S", "y", "s", "t", "e", "m", " ", "P", "o", "w", "e", "r", " ", "S", "u", "p", "p", "l", "y">>,
     <<"H", "a", "n", "d", "l", "e", " ", "0", "x", "0", "0", "2", "7", ",", " ", "D", "M", "I", " ", "t", "y", "p", "e", " ", "3", "9">>}

\* `dmidecode -t power -t powersupply` answered, could not be started or
\* exited with an error
DmidecodePsu ==
    /\ pc = "main"
    /\ \E run \in ToolRuns(Texts(PsuLines, MaxPsuLines)) :
          /\ tools' = [dmidecode |-> run]
          /\ output' = Some(collect_power_supplies_dmidecode(tools'))
    /\ pc' = "dmidecode_done"
    /\ UNCHANGED <<dmi, sysfs, locals>>

SpecDmidecode == Init /\ [][DmidecodePsu]_vars

DmidecodeDone == pc = "dmidecode_done" /\ tools.dmidecode.success

PsuText == tools.dmidecode.stdout

PsuOut == Entries(Unwrap(output))

IsBoundary(line) == Contains(line, <<"P", "o", "w", "e", "r", " ", "S", "u", "p", "p", "l", "y">>) /\ Contains(line, <<"H", "a", "n", "d", "l", "e">>)

Boundaries == {i \in 1..Len(PsuText) : IsBoundary(PsuText[i])}

\* the last line of the record opened at boundary line b
RecordEnd(b) ==
    IF \E j \in Boundaries : j > b
    THEN (CHOOSE j \in Boundaries : j > b /\ \A i \in Boundaries : i > b => j <= i) - 1
    ELSE Len(PsuText)

\* the "Key: value" lines from..to applied to psu, one after the other
RECURSIVE KeyValuesApplied(_, _, _)
KeyValuesApplied(psu, from, to) ==
    IF from > to THEN psu
    ELSE LET kv == SplitOnce(TrimStr(PsuText[from]), ":")
         IN  KeyValuesApplied(IF IsSome(kv)
                              THEN DmidecodeField(psu, TrimStr(Unwrap(kv)[1]),
                                                  TrimStr(Unwrap(kv)[2]))
                              ELSE psu,
                              from + 1, to)

\* C26: the parser emits one record per boundary line (a line containing
\* both "Power Supply" and "Handle"), in input order; the k-th record holds
\* exactly the key-value lines between the k-th boundary line and the next
\* one, so lines before the first boundary are ignored; without a boundary
\* line there are no entries.
C26_OneRecordPerBoundary ==
    DmidecodeDone =>
        /\ Len(PsuOut) = Cardinality(Boundaries)
        /\ \A b \in Boundaries :
              PsuOut[Cardinality({j \in Boundaries : j <= b})]
                  = KeyValuesApplied(EmptyPsu, b + 1, RecordEnd(b))
        /\ Boundaries = {} => output = Some(None)

\* a name before the first boundary line, a named record, then a boundary
\* line that carries a colon and opens an empty record
C26_Witness ==
    /\ DmidecodeDone
    /\ PsuText = <<<<"N", "a", "m", "e", ":", " ", "P", "S", "U", "2">>, <<"P", "o", "w", "e", "r", " ", "S", "u", "p", "p", "l", "y", " ", "H", "a", "n", "d", "l", "e", " ", "0", "x", "0", "0", "2", "7">>, <<" ", " ", "N", "a", "m", "e", ":", " ", "P", "S", "U", "1">>,
                   <<"P", "o", "w", "e", "r", " ", "S", "u", "p", "p", "l", "y", " ", "H", "a", "n", "d", "l", "e", ":", " ", "0", "x", "0", "0", "2", "8">>>>
    /\ PsuOut = <<[EmptyPsu EXCEPT !.name = Some(<<"P", "S", "U", "1">>)], EmptyPsu>>

----------------------------------------------------------------------------
(* collect_full_inventory as a run of seven blocking calls: a collector    *)
(* returns once every tool it started has exited                           *)

\* the collectors that start external tools
ProbingCategories == {"node", "disks", "network", "gpus", "power_supplies"}

\* which collectors start a tool that never exits
HangingProbes == {{}} \cup {{c} : c \in ProbingCategories} \cup {{"disks", "power_supplies"}}

\* the machines of the run: the firmware table readable or not, the tools
\* not installed (Command::output() fails at once) unless they hang
RunEnvironments ==
    { [dmi |-> d,
       files |-> [node |-> n.files,
                  disks |-> [block |-> s.block, class_nvme |-> <<>>],
                  network |-> [class_net |-> w.class_net],
                  gpus |-> [pci_devices |-> g.pci_devices, pci_ids |-> g.pci_ids],
                  power_supplies |-> [class_power_supply |-> p.class_power_supply]],
       runs |-> [node |-> n.runs, disks |-> s.runs, network |-> [ip |-> w.ip],
                 gpus |-> g.runs, power_supplies |-> p.runs]] :
        d \in DmiCases,
        n \in {c \in NodeCases : \A t \in {"netstat", "which", "ipmitool_mc_info"} :
                                    ~c.runs[t].spawned},
        s \in {c \in StorageCases : IsNone(c.block)},
        w \in {c \in NetworkCases : IsNone(c.class_net) /\ c.ip = "absent"},
        g \in {c \in GpuCases : IsNone(c.pci_devices) /\ IsNone(c.pci_ids)
                                /\ ~c.runs.nvidia_smi.spawned /\ ~c.runs.rocm_smi.spawned},
        p \in {c \in PowerCases : IsNone(c.class_power_supply)
                                  /\ \A t \in DOMAIN c.runs : ~c.runs[t].spawned} }

\* a run that calls the network collector again each time it has returned
FollowingWithRetry(k) ==
    IF k = 5 THEN SequentialOrder[5]
    ELSE IF k < Len(SequentialOrder) THEN SequentialOrder[k + 1]
    ELSE "collected"

\* the statement that follows the k-th `let` of collect_full_inventory
Following(k) ==
    IF k < Len(SequentialOrder) THEN SequentialOrder[k + 1] ELSE "collected"

\* the machine the run is started on, and the probes that hang on it
StartRun ==
    /\ pc = "main"
    /\ \E machine \in RunEnvironments, hung \in HangingProbes :
          /\ dmi' = machine.dmi
          /\ sysfs' = machine.files
          /\ tools' = ("hung" :> hung) @@ machine.runs
    /\ pc' = SequentialOrder[1]
    /\ UNCHANGED <<locals, output>>

\* the collector the run is in returns: Command::output() has returned for
\* each of its tools
CollectorReturns ==
    /\ \E k \in 1..Len(SequentialOrder) :
          /\ pc = SequentialOrder[k]
          /\ pc \notin tools.hung
          /\ \E order \in IterationOrders(DOMAIN collect_with_smbios(dmi)) :
                locals' = Bound(locals, pc, CollectorResult(pc, order))
          /\ pc' = Following(k)
    /\ UNCHANGED <<dmi, sysfs, tools, output>>

\* the Inventory is built and returned
InventoryReturned ==
    /\ pc = "collected"
    /\ output' = Some(Inventory(locals))
    /\ pc' = "returned"
    /\ UNCHANGED <<dmi, sysfs, tools, locals>>

RunNext ==
    \/ StartRun
    \/ CollectorReturns
    \/ InventoryReturned

\* the one thread of the program keeps executing
SpecRun == Init /\ [][RunNext]_vars /\ WF_vars(RunNext)

\* the run is inside a collector one of whose tools never exits
Blocked == pc \in Categories /\ pc \in tools.hung

Returned == pc = "returned"

\* C28: the run returns the Inventory unless it reaches a collector one of
\* whose tools never exits, so it returns whenever every tool exits; and
\* once it waits for a tool that never exits it waits forever and never
\* returns.
C28_ReturnsUnlessProbeHangs ==
    /\ <>(Returned \/ Blocked)
    /\ [](pc \in Categories /\ tools.hung = {} => <>Returned)
    /\ [](Blocked => [](Blocked /\ ~Returned))

\* every tool has exited and the Inventory with its seven categories has
\* been returned
C28_Witness ==
    /\ Returned
    /\ tools.hung = {}
    /\ output = Some(Inventory(locals))
    /\ DOMAIN locals = Categories

\* the four fields of the reported BMC are absent
BmcWithoutDetails ==
    /\ DOMAIN Bmc = {"ip_address", "mac_address", "firmware_version", "release_date"}
    /\ \A field \in DOMAIN Bmc : IsNone(Bmc[field])

\* C30: the node record always carries a BMC; it has all four fields
\* absent when no strategy detects one, and equally when the IPMI device
\* file or the network-management heuristic detects one, so the two cases
\* are reported alike.
C30_BmcPresentAndSilentWithoutDetails ==
    NodeDone =>
        LET strategies == BmcStrategies
        IN  /\ IsSome(NodeOut.bmc)
            /\ (\A k \in 1..5 : IsNone(strategies[k])) => BmcWithoutDetails
            /\ (FirstToSucceed(strategies, 1) \/ FirstToSucceed(strategies, 3))
                  => BmcWithoutDetails

\* an IPMI device file exists and ipmitool would report a firmware
\* revision: the BMC is reported without any detail
C30_Witness ==
    /\ NodeDone
    /\ \E device \in IpmiDevices : device \in sysfs.dev
    /\ IsSome(collect_ipmi_bmc(tools))
    /\ IsSome(Unwrap(collect_ipmi_bmc(tools)).firmware_version)
    /\ IsSome(NodeOut.bmc)
    /\ BmcWithoutDetails

====
